---- MODULE Spec2Model ----
(***************************************************************************)
(* shadowSpeaker: the chunked audio buffer manager (AudioSample in         *)
(* src/app/util/sample.ts) and the segment range controller                *)
(* (playAudioSegment / stopPlayback in src/app/page.tsx).                  *)
(*                                                                         *)
(* Nine specifications share this module:                                  *)
(*   SpecRange  createSegmentBuffer as a sequential function of its        *)
(*              inputs, over a fully split recording;                      *)
(*   SpecBuf    AudioSample under interleaving: initSample, concurrent     *)
(*              createSegmentBuffer calls, their background prefetches and *)
(*              the splitter writing chunk files;                          *)
(*   SpecInit   AudioSample initialised again while calls are under way;   *)
(*   SpecSplit  splitMp3Segments over recordings of several lengths, with  *)
(*              encoding and writing that can fail;                        *)
(*   SpecCtl    the playback controller: playAudioSegment calls suspended  *)
(*              at their await, the clips' ended events, the cue tone;     *)
(*   SpecLoop   the controller playing a range with no further click,      *)
(*              under fairness of buffers arriving and clips ending;       *)
(*   SpecBufLive  one createSegmentBuffer caller and its prefetches under  *)
(*              fairness of the reads and decodes it waits for;            *)
(*   SpecTrack  the controller with each call remembering the position it  *)
(*              started from and whether a stop came while it waited;      *)
(*   SpecIngest the mount effect turning the transcript's entries into     *)
(*              segments with scene ids and widened times.                 *)
(* Every specification leaves the variables of the others untouched.       *)
(***************************************************************************)
EXTENDS Integers, Sequences, FiniteSets, Bags, TLC

\* ------------------------------------------------------------------------
\* Program constants
\* ------------------------------------------------------------------------
AUDIO_BUFFER_SEGMENT_SEC == 60

MP3_PADING_SAMPLES == 1105

DEFAULT_SAMPLE_RATE == 44100

DEFAULT_CHANNELS == 1

\* ------------------------------------------------------------------------
\* Bounds of the model
\* ------------------------------------------------------------------------
\* times are multiples of 1/TimeDen second
TimeDen == 2

\* sample rates of the imported recording: 1..MaxRate samples per second
MaxRate == 1

\* channel counts of the imported recording: 1..MaxChannels
MaxChannels == 2

\* the recording has up to FullChunks whole chunks ...
FullChunks == 2

\* ... and a truncated last chunk of 0 or PartSamples samples
PartSamples == 7

\* segments of the transcript
NumSegments == 3

\* source nodes alive at once
MaxNodes == 2

\* playAudioSegment calls suspended at their await at once
MaxCalls == 2

\* characters of a scene id
IdLen == 2

\* samples the codec appends after the payload of a decoded chunk
TailPad == 2

\* request times lie within EdgeWidth samples of a chunk boundary
EdgeWidth == 1

\* tag arithmetic: more than any decoded chunk length and chunk index
SampleStride == 10000

Min(a, b) == IF a < b THEN a ELSE b

Max(a, b) == IF a > b THEN a ELSE b

VARIABLES
    \* the imported recording (what the splitter was given)
    recLen, recRate, recChannels,
    \* SpecRange: three requests tiling [a, c) and their results
    rq, res,
    \* the chunk files in the store: "absent", "empty" (created, not yet
    \* closed by opfsWrite) or "written"
    files,
    \* the import: splitMp3Segments' position, loop index and last status,
    \* and what each chunk file was written with
    splitter, blobs,
    \* AudioSample: buffers, sampleRate, numOfChannels
    buffers, sampleRate, numOfChannels,
    \* initSample's position, the project it was called for, what the last
    \* initSample to return returned ("none", "true" or "false"), and the
    \* status last set
    initPc, initProject, lastInit, status,
    \* the createSegmentBuffer calls and the prefetch each one launched
    task, pf,
    \* bookkeeping: decodes completed per chunk, rejections nobody handled
    decoded, unhandled,
    \* the controller: the sceneId of every segment, playContext.playInfo,
    \* the source nodes still sounding that playInfo no longer holds, the
    \* playAudioSegment calls suspended at their await, the React state
    \* segIndex, localStorage's lastPlayIndex, and the status text
    segs, playInfo, detached, call, segIndex, lsIndex, ctlStatus,
    \* bookkeeping: the last step was an ended event running the listener
    \* of a clip that was already sounding when the user last navigated
    stray,
    \* bookkeeping: whether the suspended calls record what went before them
    track,
    \* the entries srtParser returns for transcript.srt, and the segments
    \* the page makes of them
    srt, segments

\* ------------------------------------------------------------------------
\* The store and the decoder, as createSegmentBuffer sees them
\* ------------------------------------------------------------------------
\* samples per chunk at the recording's rate
ChunkSamples == AUDIO_BUFFER_SEGMENT_SEC * recRate

\* splitMp3Segments: totalChunks = ceil(duration / AUDIO_BUFFER_SEGMENT_SEC)
TotalChunks == (recLen + ChunkSamples - 1) \div ChunkSamples

\* audioBufferToMp3Blob: chunk k holds source samples
\* [k*N, min((k+1)*N, length))
ChunkPayload(k) == Max(0, Min((k + 1) * ChunkSamples, recLen) - k * ChunkSamples)

\* decodeAudioData of chunk k: priming samples, the payload, codec tail
DecodedLength(k) == MP3_PADING_SAMPLES + ChunkPayload(k) + TailPad

\* the value of sample j of channel c of decoded chunk k (never 0, the value
\* of a freshly created buffer)
ChunkSample(c, k, j) == (c * SampleStride + k) * SampleStride + j + 1

\* Float32Array.subarray(begin, end) of channel c of decoded chunk k:
\* begin and end are clamped to the array's length
Subarray(c, k, begin, end) ==
    LET len == DecodedLength(k)
        lo  == Min(Max(begin, 0), len)
        hi  == Min(Max(end, 0), len)
        n   == Max(hi - lo, 0)
    IN  [i \in 1..n |-> ChunkSample(c, k, lo + i - 1)]

\* TypedArray.set(source, offset) fits iff offset + length <= target length
SetFits(target, source, offset) == offset + Len(source) <= Len(target)

\* a set() that forgets the write offset
SetAt_NoOffset(target, source, offset) ==
    [i \in 1..Len(target) |->
        IF i <= Len(source) THEN source[i] ELSE target[i]]

SetAt(target, source, offset) ==
    [i \in 1..Len(target) |->
        IF i > offset /\ i <= offset + Len(source)
        THEN source[i - offset] ELSE target[i]]

\* ------------------------------------------------------------------------
\* createSegmentBuffer: the index arithmetic
\* ------------------------------------------------------------------------
\* Math.floor(sec * sampleRate), sec = t / TimeDen
SampleIdx(t, rate) == (t * rate) \div TimeDen

\* the chunk loop started at the first chunk of the recording
Locals_FromFirstChunk(startT, durT, rate) ==
    LET segmentStartIdx == SampleIdx(startT, rate)
        segmentEndIdx   == SampleIdx(startT + durT, rate)
        bufferDuration  == AUDIO_BUFFER_SEGMENT_SEC * rate
        startBufferIdx  == 0
        endBufferIdx    == segmentEndIdx \div bufferDuration
    IN  [ segmentStartIdx     |-> segmentStartIdx,
          segmentEndIdx       |-> segmentEndIdx,
          bufferDuration      |-> bufferDuration,
          startBufferIdx      |-> startBufferIdx,
          endBufferIdx        |-> endBufferIdx,
          startOffsetInBuffer |-> segmentStartIdx - startBufferIdx * bufferDuration,
          endOffsetInBuffer   |-> segmentEndIdx - endBufferIdx * bufferDuration,
          totalSamples        |-> segmentEndIdx - segmentStartIdx ]

Locals(startT, durT, rate) ==
    LET segmentStartIdx == SampleIdx(startT, rate)
        segmentEndIdx   == SampleIdx(startT + durT, rate)
        bufferDuration  == AUDIO_BUFFER_SEGMENT_SEC * rate
        startBufferIdx  == segmentStartIdx \div bufferDuration
        endBufferIdx    == segmentEndIdx \div bufferDuration
    IN  [ segmentStartIdx     |-> segmentStartIdx,
          segmentEndIdx       |-> segmentEndIdx,
          bufferDuration      |-> bufferDuration,
          startBufferIdx      |-> startBufferIdx,
          endBufferIdx        |-> endBufferIdx,
          startOffsetInBuffer |-> segmentStartIdx - startBufferIdx * bufferDuration,
          endOffsetInBuffer   |-> segmentEndIdx - endBufferIdx * bufferDuration,
          totalSamples        |-> segmentEndIdx - segmentStartIdx ]

\* the first chunk read from one sample too far
ReadStart_OffByOne(L, bufIdx) ==
    IF bufIdx = L.startBufferIdx
    THEN MP3_PADING_SAMPLES + L.startOffsetInBuffer + 1
    ELSE MP3_PADING_SAMPLES

ReadStart(L, bufIdx) ==
    IF bufIdx = L.startBufferIdx /\ bufIdx = L.endBufferIdx
    THEN MP3_PADING_SAMPLES + L.startOffsetInBuffer
    ELSE IF bufIdx = L.startBufferIdx
    THEN MP3_PADING_SAMPLES + L.startOffsetInBuffer
    ELSE MP3_PADING_SAMPLES

\* the last chunk's read end without the priming offset
ReadEnd_NoPadLast(L, bufIdx) ==
    IF bufIdx = L.startBufferIdx /\ bufIdx = L.endBufferIdx
    THEN MP3_PADING_SAMPLES + L.startOffsetInBuffer + L.totalSamples
    ELSE IF bufIdx = L.startBufferIdx
    THEN MP3_PADING_SAMPLES + L.bufferDuration
    ELSE IF bufIdx = L.endBufferIdx
    THEN L.endOffsetInBuffer
    ELSE MP3_PADING_SAMPLES + L.bufferDuration

ReadEnd(L, bufIdx) ==
    IF bufIdx = L.startBufferIdx /\ bufIdx = L.endBufferIdx
    THEN MP3_PADING_SAMPLES + L.startOffsetInBuffer + L.totalSamples
    ELSE IF bufIdx = L.startBufferIdx
    THEN MP3_PADING_SAMPLES + L.bufferDuration
    ELSE IF bufIdx = L.endBufferIdx
    THEN MP3_PADING_SAMPLES + L.endOffsetInBuffer
    ELSE MP3_PADING_SAMPLES + L.bufferDuration

\* audioContext.createBuffer(channels, length, rate): every sample 0
ZeroBuffer(len) == [i \in 1..len |-> 0]

\* one pass of the inner loop body after the chunk is available: copy the
\* applicable part of decoded chunk bufIdx to the output at writeOffset
\* (chunk is the decoded chunk the slot's promise resolved to)
CopyChunk(L, channel, bufIdx, chunk, out, writeOffset) ==
    LET channelData == Subarray(channel, chunk, ReadStart(L, bufIdx), ReadEnd(L, bufIdx))
    IN  [ fits        |-> SetFits(out, channelData, writeOffset),
          out         |-> SetAt(out, channelData, writeOffset),
          writeOffset |-> writeOffset + Len(channelData) ]

\* ------------------------------------------------------------------------
\* createSegmentBuffer run to completion with no other task interleaved;
\* have = the chunk indices whose file can be read and decoded
\* ------------------------------------------------------------------------
Failed(why) == [status |-> why, data |-> <<>>, written |-> <<>>]

RECURSIVE RunChunks(_, _, _, _, _, _)
\* the inner loop for one channel, from bufIdx on
RunChunks(L, channel, bufIdx, out, writeOffset, have) ==
    IF bufIdx > L.endBufferIdx
    THEN [status |-> "ok", out |-> out, writeOffset |-> writeOffset]
    ELSE IF bufIdx \notin have
    THEN [status |-> "NotFoundError", out |-> out, writeOffset |-> writeOffset]
    ELSE LET r == CopyChunk(L, channel, bufIdx, bufIdx, out, writeOffset)
         IN  IF ~r.fits
             THEN [status |-> "RangeError", out |-> out, writeOffset |-> writeOffset]
             ELSE RunChunks(L, channel, bufIdx + 1, r.out, r.writeOffset, have)

RECURSIVE RunChannels(_, _, _, _, _, _)
\* the outer loop over channels; the first failure ends the call
RunChannels(L, channel, numberOfChannels, data, written, have) ==
    IF channel >= numberOfChannels
    THEN [status |-> "ok", data |-> data, written |-> written]
    ELSE LET r == RunChunks(L, channel, L.startBufferIdx,
                            ZeroBuffer(L.totalSamples), 0, have)
         IN  IF r.status # "ok"
             THEN Failed(r.status)
             ELSE RunChannels(L, channel + 1, numberOfChannels,
                              Append(data, r.out), Append(written, r.writeOffset), have)

createSegmentBuffer(startT, durT, rate, numberOfChannels, loaded, have) ==
    LET L == Locals(startT, durT, rate)
    IN  IF ~loaded THEN Failed("Not yet loaded")
        ELSE IF L.totalSamples < 1 THEN Failed("NotSupportedError")
        ELSE RunChannels(L, 0, numberOfChannels, <<>>, <<>>, have)

\* ------------------------------------------------------------------------
\* The state of AudioSample and of the calls on it (SpecBuf)
\* ------------------------------------------------------------------------
\* the callers that may have a createSegmentBuffer call outstanding at once
Tasks == {"t1", "t2"}

\* chunk indices a request or its prefetch can name
ChunkIdx == 0..(FullChunks + 2)

\* (startT, durT) of the requests, in 1/TimeDen s: inside chunk 0, across
\* the boundary of chunks 0 and 1, across the boundary of chunks 1 and 2
BufRequests ==
    { <<TimeDen * 1, TimeDen * 2>>,
      <<TimeDen * (AUDIO_BUFFER_SEGMENT_SEC - 1), TimeDen * 2>>,
      <<TimeDen * (2 * AUDIO_BUFFER_SEGMENT_SEC - 1), TimeDen * 2>> }

\* the projects initSample is called for: the one whose recording was
\* imported, and loadLastProject() ?? "" when nothing was imported under it
Imported == "imported"

Projects == {Imported, ""}

\* a slot of this.buffers: nothing, a resolved promise of decoded chunk
\* ref, the promise created by the prefetch of task ref, or a promise whose
\* executor threw (it never settles)
NoEntry == [kind |-> "none", ref |-> 0]

Resolved(k) == [kind |-> "value", ref |-> k]

Pending(t) == [kind |-> "pending", ref |-> t]

Stuck == [kind |-> "stuck", ref |-> 0]

IdleTask ==
    [ pc |-> "idle", startT |-> 0, durT |-> 0, sampleRate |-> 0,
      numberOfChannels |-> 0, channel |-> 0, bufIdx |-> 0, writeOffset |-> 0,
      out |-> <<>>, data |-> <<>>, written |-> <<>>, bytes |-> "absent",
      awaiting |-> NoEntry, error |-> "", ready |-> FALSE, retry |-> FALSE,
      uninit |-> FALSE ]

NoPrefetch == [pc |-> "none", idx |-> 0, bytes |-> "absent"]

\* what the actions of AudioSample leave alone
notBufVars ==
    <<recLen, recRate, recChannels, rq, res,
      segs, playInfo, detached, call, segIndex, lsIndex, ctlStatus, stray,
      track, srt, segments>>

bufVars ==
    <<files, splitter, blobs, buffers, sampleRate, numOfChannels, initPc, initProject, lastInit, status, task, pf,
      decoded, unhandled>>

\* no chunk file written; splitMp3Segments not yet called
NoBlob == [name |-> <<>>, startSample |-> 0, endSample |-> 0, channels |-> 0]

SplitIdle == [pc |-> "idle", i |-> 0, status |-> <<>>]

BufIdle ==
    /\ files = [k \in ChunkIdx |-> "absent"]
    /\ splitter = SplitIdle
    /\ blobs = [k \in ChunkIdx |-> NoBlob]
    /\ buffers = [k \in ChunkIdx |-> NoEntry]
    /\ sampleRate = DEFAULT_SAMPLE_RATE
    /\ numOfChannels = DEFAULT_CHANNELS
    /\ initPc = "new"
    /\ initProject = Imported
    /\ lastInit = "none"
    /\ status = ""
    /\ task = [t \in Tasks |-> IdleTask]
    /\ pf = [t \in Tasks |-> NoPrefetch]
    /\ decoded = [k \in ChunkIdx |-> 0]
    /\ unhandled = {}

\* ------------------------------------------------------------------------
\* The state of the controller (SpecCtl)
\* ------------------------------------------------------------------------
Indices == 0..(NumSegments - 1)

\* nanoid(): the id of the k-th scene, IdLen characters, every one distinct
NanoId(k) == [i \in 1..IdLen |-> IF i = 1 THEN k ELSE 0]

\* sceneId + 1, a string followed by the character "1"
PlusOne(sceneId) == Append(sceneId, 1)

NoRange == [type |-> "none", beginIdx |-> 0, endIdx |-> 0]

\* an AudioBufferSourceNode connected to the destination: "cue" (not
\* started: its start waits for the beep to end), "playing" or "ended";
\* its loop flag; whether its ended listener is attached and the nextIndex
\* the listener captured; and, as bookkeeping, whether it was sounding
\* with its listener attached when the user last navigated
NoNode ==
    [ state |-> "none", loop |-> FALSE, listener |-> FALSE, nextIndex |-> 0,
      old |-> FALSE ]

\* playInfo: abSrcNode, whether a stopListener is recorded, rangeInfo; and,
\* as bookkeeping, the index the range was computed afresh for (-1: it was
\* given or carried over, or there is none) and the index of the segment
\* the node's buffer was created for (-1: there is no node)
NoPlayInfo ==
    [ abSrcNode |-> NoNode, stopListener |-> FALSE, rangeInfo |-> NoRange,
      freshFor |-> -1, index |-> -1 ]

NoHistory == [segIndex |-> -1, lsIndex |-> -1]

\* a call at its await: its arguments and the prevRangeInfo it captured
\* (kept only where the rest of the call reads it); and, as bookkeeping,
\* when track is set, the current index and the saved index as they were
\* when it was made and whether the playback was stopped since
AwaitingCall(index, singleEntryLoop, initRangeInfo, prevRangeInfo) ==
    [ index |-> index, singleEntryLoop |-> singleEntryLoop,
      initRangeInfo |-> initRangeInfo,
      prevRangeInfo |-> IF ~singleEntryLoop /\ initRangeInfo = NoRange
                        THEN prevRangeInfo ELSE NoRange,
      was |-> IF track THEN [segIndex |-> segIndex, lsIndex |-> lsIndex]
              ELSE NoHistory,
      stopped |-> FALSE ]

ctlVars == <<segs, playInfo, detached, call, segIndex, lsIndex, ctlStatus, stray>>

CtlIdle ==
    /\ segs = <<>>
    /\ playInfo = NoPlayInfo
    /\ detached = EmptyBag
    /\ call = EmptyBag
    /\ segIndex = 0
    /\ lsIndex = 0
    /\ ctlStatus = ""
    /\ stray = FALSE
    /\ track = FALSE
    /\ srt = <<>>
    /\ segments = <<>>

\* the bookkeeping switch and the transcript
auxVars == <<track, srt, segments>>

vars == <<recLen, recRate, recChannels, rq, res, files, splitter, blobs, buffers, sampleRate,
          numOfChannels, initPc, initProject, lastInit, status, task, pf, decoded, unhandled,
          segs, playInfo, detached, call, segIndex, lsIndex, ctlStatus, stray,
          track, srt, segments>>

\* ------------------------------------------------------------------------
\* SpecRange: the inputs
\* ------------------------------------------------------------------------
RecLens(rate) ==
    LET n == AUDIO_BUFFER_SEGMENT_SEC * rate
    IN  {PartSamples, FullChunks * n, FullChunks * n + PartSamples}

\* the latest request time: a little after the longest recording's end
MaxTime == TimeDen * (AUDIO_BUFFER_SEGMENT_SEC * FullChunks + 2 * PartSamples)

\* times whose sample index is near a chunk boundary or the recording's end
NearEdge(t, rate, len) ==
    LET s == SampleIdx(t, rate)
        n == AUDIO_BUFFER_SEGMENT_SEC * rate
        o == s % n
    IN  \/ o <= EdgeWidth
        \/ o >= n - EdgeWidth
        \/ (s >= len - EdgeWidth /\ s <= len + TailPad + EdgeWidth)

TimePoints(rate, len) == {t \in 0..MaxTime : NearEdge(t, rate, len)}

NoResult == Failed("none")

RangeInit ==
    /\ recRate \in 1..MaxRate
    /\ recChannels \in 1..MaxChannels
    /\ recLen \in RecLens(recRate)
    /\ rq \in [a : TimePoints(recRate, recLen),
               b : TimePoints(recRate, recLen),
               c : TimePoints(recRate, recLen)]
    /\ rq.a <= rq.b /\ rq.b <= rq.c
    /\ res = [ab |-> NoResult, bc |-> NoResult, ac |-> NoResult]
    /\ BufIdle
    /\ CtlIdle

\* every chunk of the recording has been written and chunk 0 is loaded
AllChunks == 0..(TotalChunks - 1)

GetRange(from, to) ==
    createSegmentBuffer(from, to - from, recRate, recChannels, TRUE, AllChunks)

\* three calls, one after another: [a,b), [b,c) and [a,c)
RangeCalls ==
    /\ res.ac = NoResult
    /\ res' = [ab |-> GetRange(rq.a, rq.b),
               bc |-> GetRange(rq.b, rq.c),
               ac |-> GetRange(rq.a, rq.c)]
    /\ UNCHANGED <<recLen, recRate, recChannels, rq>>
    /\ UNCHANGED bufVars
    /\ UNCHANGED ctlVars
    /\ UNCHANGED auxVars

SpecRange == RangeInit /\ [][RangeCalls]_vars

\* ------------------------------------------------------------------------
\* Properties of createSegmentBuffer (SpecRange)
\* ------------------------------------------------------------------------
\* floor((startSec+durationSec)*sr) - floor(startSec*sr)
ExpectedCount(from, to) == SampleIdx(to, recRate) - SampleIdx(from, recRate)

\* the request [from, to) ends within the recording
WithinRecording(to) == SampleIdx(to, recRate) <= recLen

ChunksTouched(from, to) ==
    (SampleIdx(to, recRate) \div ChunkSamples) - (SampleIdx(from, recRate) \div ChunkSamples) + 1

CountExact(r, from, to) ==
    /\ Len(r.data) = recChannels
    /\ \A ch \in 1..Len(r.data) :
          /\ Len(r.data[ch]) = ExpectedCount(from, to)
          /\ r.written[ch] = ExpectedCount(from, to)

\* C2 as stated: every call that returns has exactly
\* floor((s+d)*sr) - floor(s*sr) samples per channel, and as many samples
\* were copied from chunk data into each channel
C2_CountOfEveryReturn ==
    /\ res.ab.status = "ok" => CountExact(res.ab, rq.a, rq.b)
    /\ res.bc.status = "ok" => CountExact(res.bc, rq.b, rq.c)
    /\ res.ac.status = "ok" => CountExact(res.ac, rq.a, rq.c)

\* C2 amended: every call that returns and whose range ends within the
\* recording has exactly floor((s+d)*sr) - floor(s*sr) samples per channel,
\* all of them copied from chunk data, over one chunk or several
C2_CountWithinRecording ==
    /\ (res.ab.status = "ok" /\ WithinRecording(rq.b)) => CountExact(res.ab, rq.a, rq.b)
    /\ (res.bc.status = "ok" /\ WithinRecording(rq.c)) => CountExact(res.bc, rq.b, rq.c)
    /\ (res.ac.status = "ok" /\ WithinRecording(rq.c)) => CountExact(res.ac, rq.a, rq.c)

\* a returned range over three chunks, and one inside a single chunk
C2_Witness ==
    /\ res.ac.status = "ok" /\ WithinRecording(rq.c)
    /\ ChunksTouched(rq.a, rq.c) = 3
    /\ res.ab.status = "ok" /\ ChunksTouched(rq.a, rq.b) = 1
    /\ recChannels = 2

\* sample j of channel c of decoded chunk k, -1 where the chunk has none
DecodedAt(c, k, j) == IF j < DecodedLength(k) THEN ChunkSample(c, k, j) ELSE -1

PaddingSkipped(r, from) ==
    LET S == SampleIdx(from, recRate)
    IN  \A ch \in 1..Len(r.data) : \A i \in 1..Len(r.data[ch]) :
           r.data[ch][i] =
              DecodedAt(ch - 1, (S + i - 1) \div ChunkSamples,
                        MP3_PADING_SAMPLES + ((S + i - 1) % ChunkSamples))

\* C3 as stated: in every returned buffer, position k of channel c holds
\* sample padding + ((S+k) mod N) of decoded chunk floor((S+k)/N)
C3_PaddingOfEveryReturn ==
    /\ res.ab.status = "ok" => PaddingSkipped(res.ab, rq.a)
    /\ res.bc.status = "ok" => PaddingSkipped(res.bc, rq.b)
    /\ res.ac.status = "ok" => PaddingSkipped(res.ac, rq.a)

\* C3 amended: the same, for returned buffers whose range ends within the
\* recording
C3_PaddingWithinRecording ==
    /\ (res.ab.status = "ok" /\ WithinRecording(rq.b)) => PaddingSkipped(res.ab, rq.a)
    /\ (res.bc.status = "ok" /\ WithinRecording(rq.c)) => PaddingSkipped(res.bc, rq.b)
    /\ (res.ac.status = "ok" /\ WithinRecording(rq.c)) => PaddingSkipped(res.ac, rq.a)

\* a returned range with a first, an interior and a last chunk, not
\* starting at a chunk boundary
C3_Witness ==
    /\ res.ac.status = "ok" /\ WithinRecording(rq.c)
    /\ ChunksTouched(rq.a, rq.c) = 3
    /\ SampleIdx(rq.a, recRate) % ChunkSamples > 0
    /\ SampleIdx(rq.c, recRate) % ChunkSamples > 0

\* C4: when the calls over [a,b), [b,c) and [a,c) all return, the first two
\* buffers concatenated equal the third, channel by channel
C4_Stitching ==
    (res.ab.status = "ok" /\ res.bc.status = "ok" /\ res.ac.status = "ok")
    => \A ch \in 1..recChannels :
          res.ab.data[ch] \o res.bc.data[ch] = res.ac.data[ch]

\* a range inside one chunk followed by a range spanning two chunks
C4_Witness ==
    /\ res.ab.status = "ok" /\ res.bc.status = "ok" /\ res.ac.status = "ok"
    /\ ChunksTouched(rq.a, rq.b) = 1
    /\ ChunksTouched(rq.b, rq.c) = 2
    /\ SampleIdx(rq.b, recRate) % ChunkSamples > 0

\* every requested sample of [from, to) is a sample of the recording and
\* there is at least one
SamplesExist(from, to) ==
    /\ SampleIdx(from, recRate) < SampleIdx(to, recRate)
    /\ SampleIdx(to, recRate) <= recLen

\* C38: a call whose requested samples all lie in the recording's chunks
\* returns a buffer, also when its end is a multiple of the chunk length
C38_ExistingSamplesSucceed ==
    res.ac # NoResult
        => /\ SamplesExist(rq.a, rq.b) => res.ab.status = "ok"
           /\ SamplesExist(rq.b, rq.c) => res.bc.status = "ok"
           /\ SamplesExist(rq.a, rq.c) => res.ac.status = "ok"

RangeIdle ==
    /\ rq = [a |-> 0, b |-> 0, c |-> 0]
    /\ res = [ab |-> NoResult, bc |-> NoResult, ac |-> NoResult]

\* ------------------------------------------------------------------------
\* SpecBuf: AudioSample under interleaving.  Every await of the source is a
\* point where another task may run.
\* ------------------------------------------------------------------------
\* the recording being split: whole chunks and a truncated last one (the
\* shorter recordings are the states in which the later files are absent)
BufInit ==
    /\ recRate \in 1..MaxRate
    /\ recChannels \in 1..MaxChannels
    /\ recLen = FullChunks * AUDIO_BUFFER_SEGMENT_SEC * recRate + PartSamples
    /\ RangeIdle
    /\ BufIdle
    /\ CtlIdle

\* --- the splitter (splitMp3Segments / opfsWrite) -------------------------
AUDIO_SEGMENT_PREFIX == "audio_segment_"

\* a number in a template literal: its decimal digits
RECURSIVE Digits(_)
Digits(n) == IF n < 10 THEN <<n>> ELSE Digits(n \div 10) \o <<n % 10>>

\* getAudioFileName(idx), the name createSegmentBuffer and its prefetch read
getAudioFileName(idx) == <<AUDIO_SEGMENT_PREFIX>> \o Digits(idx) \o <<".mp3">>

\* the name initSample reads
firstSegmentName == <<AUDIO_SEGMENT_PREFIX, 0, ".mp3">>

\* the name splitMp3Segments writes chunk i under
SplitFileName_NextIndex(i) == <<AUDIO_SEGMENT_PREFIX>> \o Digits(i + 1) \o <<".mp3">>

SplitFileName(i) == <<AUDIO_SEGMENT_PREFIX>> \o Digits(i) \o <<".mp3">>

\* files and blobs are indexed by k for the file named getAudioFileName(k)
SlotOf(name) == CHOOSE k \in ChunkIdx : getAudioFileName(k) = name

\* audioBufferToMp3Blob(audioBuffer, startSec, endSec): the samples
\* slice(startSample, endSample) of up to two channels
audioBufferToMp3Blob(startSec, endSec) ==
    LET startSample == startSec * recRate
        endSample   == Min(endSec * recRate, recLen)
        from        == Min(startSample, recLen)
    IN  [ startSample |-> from,
          endSample   |-> Max(from, endSample),
          channels    |-> IF recChannels > 1 THEN 2 ELSE 1 ]

\* the blob of chunk i
Mp3Segment(i) ==
    audioBufferToMp3Blob(i * AUDIO_BUFFER_SEGMENT_SEC, (i + 1) * AUDIO_BUFFER_SEGMENT_SEC)

\* the status texts of the import
Splitting(i) == <<"splitting", i + 1, "/", TotalChunks>>

SplittingDone == <<"splitting done">>

ErrorProcessing == <<"Error processing audio file">>

\* an exception leaves splitMp3Segments; handleFileSelect catches it
SplitFailed_Swallowed(i) == [pc |-> "failed", i |-> i, status |-> SplittingDone]

SplitFailed(i) == [pc |-> "failed", i |-> i, status |-> ErrorProcessing]

\* the loop from its test for chunk i to its next await: the status, the
\* encoding of chunk i, which may throw; or the loop's end
LoopHead(i, encoded) ==
    IF i < TotalChunks
    THEN IF encoded THEN [pc |-> "write", i |-> i, status |-> Splitting(i)]
         ELSE SplitFailed(i)
    ELSE [pc |-> "done", i |-> i, status |-> SplittingDone]

\* the chunk the splitter's loop is at
NextToWrite == splitter.i

\* handleFileSelect calls splitMp3Segments
SplitBegin(encoded) ==
    /\ splitter.pc = "idle"
    /\ splitter' = LoopHead(0, encoded)
    /\ UNCHANGED <<files, blobs, buffers, sampleRate, numOfChannels, initPc, initProject,
                   lastInit, status, task, pf, decoded, unhandled>>
    /\ UNCHANGED notBufVars

\* opfsWrite: getFileHandle(create: true) makes the file exist, empty if it
\* is new; or the folder or the handle is refused
WriteBegin(ok) ==
    /\ splitter.pc = "write"
    /\ LET k == SlotOf(SplitFileName(NextToWrite))
       IN  IF ok
           THEN /\ files' = [files EXCEPT ![k] = IF @ = "absent" THEN "empty" ELSE @]
                /\ splitter' = [splitter EXCEPT !.pc = "close"]
           ELSE /\ splitter' = SplitFailed(NextToWrite)
                /\ UNCHANGED files
    /\ UNCHANGED <<blobs, buffers, sampleRate, numOfChannels, initPc, initProject, lastInit,
                   status, task, pf, decoded, unhandled>>
    /\ UNCHANGED notBufVars

\* opfsWrite: writable.close() commits the chunk's bytes and the loop goes
\* on to the next chunk; or the write is refused and the file stays as it is
WriteClose(ok, encoded) ==
    /\ splitter.pc = "close"
    /\ LET name == SplitFileName(NextToWrite)
           k    == SlotOf(name)
       IN  IF ok
           THEN /\ files' = [files EXCEPT ![k] = "written"]
                /\ blobs' = [blobs EXCEPT ![k] =
                                 [name |-> name] @@ Mp3Segment(NextToWrite)]
                /\ splitter' = LoopHead(NextToWrite + 1, encoded)
           ELSE /\ splitter' = SplitFailed(NextToWrite)
                /\ UNCHANGED <<files, blobs>>
    /\ UNCHANGED <<buffers, sampleRate, numOfChannels, initPc, initProject, lastInit,
                   status, task, pf, decoded, unhandled>>
    /\ UNCHANGED notBufVars

\* --- initSample ----------------------------------------------------------
\* the chunk file k of project, as opfsExist and opfsRead find it
FileOf(project, k) == IF project = Imported THEN files[k] ELSE "absent"

\* initSample(setStatus, project) up to its first await:
\* this.buffers = {}; await opfsExist(firstSegmentName)
InitSample(project) ==
    /\ buffers' = [k \in ChunkIdx |-> NoEntry]
    /\ decoded' = [k \in ChunkIdx |-> 0]
    /\ initPc' = "exist"
    /\ initProject' = project
    /\ UNCHANGED <<files, splitter, blobs, sampleRate, numOfChannels, lastInit, status, task, pf,
                   unhandled>>
    /\ UNCHANGED notBufVars

\* the call the page makes when it mounts
InitSampleCall ==
    /\ initPc = "new"
    /\ InitSample(Imported)

\* the existence check returns: false ends initSample, true starts the read
InitSampleExist ==
    /\ initPc = "exist"
    /\ IF FileOf(initProject, 0) = "absent"
       THEN /\ status' = "Segment not found"
            /\ initPc' = "returned false"
            /\ lastInit' = "false"
       ELSE /\ initPc' = "read"
            /\ UNCHANGED <<status, lastInit>>
    /\ UNCHANGED <<files, splitter, blobs, buffers, sampleRate, numOfChannels, initProject, task, pf,
                   decoded, unhandled>>
    /\ UNCHANGED notBufVars

\* opfsRead returns the bytes the file holds now; decodeAudioData starts
InitSampleRead ==
    /\ initPc = "read"
    /\ initPc' = (IF FileOf(initProject, 0) = "written" THEN "decode"
                  ELSE "decode empty")
    /\ UNCHANGED <<files, splitter, blobs, buffers, sampleRate, numOfChannels, initProject,
                   lastInit, status, task, pf, decoded, unhandled>>
    /\ UNCHANGED notBufVars

\* decodeAudioData returns or throws; on success the fields and buffers[0]
InitSampleDecode ==
    /\ initPc \in {"decode", "decode empty"}
    /\ IF initPc = "decode empty"
       THEN /\ initPc' = "threw"
            /\ unhandled' = unhandled \cup {"initSample"}
            /\ UNCHANGED <<buffers, sampleRate, numOfChannels, lastInit, status,
                           decoded>>
       ELSE /\ numOfChannels' = recChannels
            /\ sampleRate' = recRate
            /\ buffers' = [buffers EXCEPT ![0] = Resolved(0)]
            /\ decoded' = [decoded EXCEPT ![0] = @ + 1]
            /\ status' = "Segment initialized"
            /\ initPc' = "returned true"
            /\ lastInit' = "true"
            /\ UNCHANGED unhandled
    /\ UNCHANGED <<files, splitter, blobs, initProject, task, pf>>
    /\ UNCHANGED notBufVars

\* --- createSegmentBuffer, step by step -----------------------------------
\* the head of the inner loop: a slot that is undefined starts opfsRead,
\* any other slot is awaited as it is now
AtLoopHead_LoadUnlessResolved(tk) ==
    IF buffers[tk.bufIdx].kind # "value"
    THEN [tk EXCEPT !.pc = "read"]
    ELSE [tk EXCEPT !.pc = "await", !.awaiting = buffers[tk.bufIdx]]

AtLoopHead(tk) ==
    IF buffers[tk.bufIdx].kind = "none"
    THEN [tk EXCEPT !.pc = "read"]
    ELSE [tk EXCEPT !.pc = "await", !.awaiting = buffers[tk.bufIdx]]

\* the call throws: what remains is the request, the chunk it was at and
\* the error
Fail(tk, why) ==
    [IdleTask EXCEPT !.pc = "failed", !.error = why, !.startT = tk.startT,
                     !.durT = tk.durT, !.bufIdx = tk.bufIdx,
                     !.ready = tk.ready, !.retry = tk.retry,
                     !.uninit = tk.uninit]

\* the chunk files of request r at rate sr are all written
FilesReady(r, sr) ==
    LET L == Locals(r[1], r[2], sr)
    IN  \A k \in L.startBufferIdx..L.endBufferIdx : files[k] = "written"

\* the call up to its first await (or its throw)
Call(t, r) ==
    /\ task[t].pc \in {"idle", "done", "failed"}
    /\ pf[t].pc = "none"
    /\ LET L  == Locals(r[1], r[2], sampleRate)
           tk == [IdleTask EXCEPT !.startT = r[1], !.durT = r[2],
                                  !.ready = FilesReady(r, sampleRate),
                                  !.uninit = lastInit \in {"none", "false"},
                                  !.retry = /\ task[t].pc = "failed"
                                            /\ task[t].error = "NotFoundError"
                                            /\ task[t].startT = r[1]
                                            /\ task[t].durT = r[2]]
       IN  task' = [task EXCEPT ![t] =
                IF buffers[0].kind = "none" THEN Fail(tk, "Not yet loaded")
                ELSE IF L.totalSamples < 1 THEN Fail(tk, "NotSupportedError")
                ELSE AtLoopHead([tk EXCEPT !.sampleRate = sampleRate,
                                           !.numberOfChannels = numOfChannels,
                                           !.bufIdx = L.startBufferIdx,
                                           !.out = ZeroBuffer(L.totalSamples)])]
    /\ UNCHANGED <<files, splitter, blobs, buffers, sampleRate, numOfChannels, initPc, initProject, lastInit, status, pf,
                   decoded, unhandled>>
    /\ UNCHANGED notBufVars

\* opfsRead(getAudioFileName(bufIdx)) returns the file's bytes or throws
TaskRead(t) ==
    /\ task[t].pc = "read"
    /\ IF files[task[t].bufIdx] = "absent"
       THEN task' = [task EXCEPT ![t] = Fail(@, "NotFoundError")]
       ELSE task' = [task EXCEPT ![t].pc = "decode",
                                 ![t].bytes = files[task[t].bufIdx]]
    /\ UNCHANGED <<files, splitter, blobs, buffers, sampleRate, numOfChannels, initPc, initProject, lastInit, status, pf,
                   decoded, unhandled>>
    /\ UNCHANGED notBufVars

\* decodeAudioData returns or throws; on success the slot is assigned
\* Promise.resolve(audioBuffer), whatever it holds by now
TaskDecode(t) ==
    /\ task[t].pc = "decode"
    /\ IF task[t].bytes = "empty"
       THEN /\ task' = [task EXCEPT ![t] = Fail(@, "EncodingError")]
            /\ UNCHANGED <<buffers, decoded>>
       ELSE /\ buffers' = [buffers EXCEPT ![task[t].bufIdx] = Resolved(task[t].bufIdx)]
            /\ decoded' = [decoded EXCEPT ![task[t].bufIdx] = @ + 1]
            /\ task' = [task EXCEPT ![t].pc = "await",
                                    ![t].awaiting = Resolved(task[t].bufIdx)]
    /\ UNCHANGED <<files, splitter, blobs, sampleRate, numOfChannels, initPc, initProject, lastInit, status, pf,
                   unhandled>>
    /\ UNCHANGED notBufVars

\* the prefetch closure up to its first await: nothing to do when the slot
\* after the last chunk is taken, else opfsExist is awaited
LaunchPrefetch_Always(L) ==
    [NoPrefetch EXCEPT !.pc = "exist", !.idx = L.endBufferIdx + 1]

LaunchPrefetch(L) ==
    IF buffers[L.endBufferIdx + 1].kind # "none"
    THEN NoPrefetch
    ELSE [NoPrefetch EXCEPT !.pc = "exist", !.idx = L.endBufferIdx + 1]

\* the awaited promise has resolved: copy the chunk's part, then go on to
\* the next chunk, the next channel, or launch the prefetch and return
TaskAwait(t) ==
    /\ task[t].pc = "await"
    /\ task[t].awaiting.kind = "value"
    /\ LET tk == task[t]
           L  == Locals(tk.startT, tk.durT, tk.sampleRate)
           r  == CopyChunk(L, tk.channel, tk.bufIdx, tk.awaiting.ref, tk.out, tk.writeOffset)
           lastChunk   == tk.bufIdx = L.endBufferIdx
           lastChannel == tk.channel + 1 >= tk.numberOfChannels
       IN  IF ~r.fits
           THEN /\ task' = [task EXCEPT ![t] = Fail(tk, "RangeError")]
                /\ UNCHANGED pf
           ELSE IF ~lastChunk
           THEN /\ task' = [task EXCEPT ![t] =
                       AtLoopHead([tk EXCEPT !.out = r.out,
                                             !.writeOffset = r.writeOffset,
                                             !.bufIdx = tk.bufIdx + 1])]
                /\ UNCHANGED pf
           ELSE IF ~lastChannel
           THEN /\ task' = [task EXCEPT ![t] =
                       AtLoopHead([tk EXCEPT !.data = Append(tk.data, r.out),
                                             !.written = Append(tk.written, r.writeOffset),
                                             !.out = ZeroBuffer(L.totalSamples),
                                             !.writeOffset = 0,
                                             !.channel = tk.channel + 1,
                                             !.bufIdx = L.startBufferIdx])]
                /\ UNCHANGED pf
           ELSE /\ task' = [task EXCEPT ![t] =
                       [IdleTask EXCEPT !.pc = "done",
                                  !.startT = tk.startT, !.durT = tk.durT,
                                  !.sampleRate = tk.sampleRate,
                                  !.numberOfChannels = tk.numberOfChannels,
                                  !.data = Append(tk.data, r.out),
                                  !.written = Append(tk.written, r.writeOffset),
                                  !.ready = tk.ready, !.retry = tk.retry,
                                  !.uninit = tk.uninit]]
                /\ pf' = [pf EXCEPT ![t] = LaunchPrefetch(L)]
    /\ UNCHANGED <<files, splitter, blobs, buffers, sampleRate, numOfChannels, initPc, initProject, lastInit, status,
                   decoded, unhandled>>
    /\ UNCHANGED notBufVars

\* --- the prefetch launched by task t's call ------------------------------
\* opfsExist returned: false ends the prefetch; true assigns the slot a new
\* promise whose executor starts opfsRead
PrefetchExist(t) ==
    /\ pf[t].pc = "exist"
    /\ IF files[pf[t].idx] = "absent"
       THEN /\ pf' = [pf EXCEPT ![t] = NoPrefetch]
            /\ UNCHANGED buffers
       ELSE /\ buffers' = [buffers EXCEPT ![pf[t].idx] = Pending(t)]
            /\ pf' = [pf EXCEPT ![t].pc = "read"]
    /\ UNCHANGED <<files, splitter, blobs, sampleRate, numOfChannels, initPc, initProject, lastInit, status, task,
                   decoded, unhandled>>
    /\ UNCHANGED notBufVars

\* the executor's opfsRead returns the bytes the file holds now
PrefetchRead(t) ==
    /\ pf[t].pc = "read"
    /\ pf' = [pf EXCEPT ![t].pc = "decode", ![t].bytes = files[pf[t].idx]]
    /\ UNCHANGED <<files, splitter, blobs, buffers, sampleRate, numOfChannels, initPc, initProject, lastInit, status, task,
                   decoded, unhandled>>
    /\ UNCHANGED notBufVars

\* the promise of task t's prefetch becomes entry e wherever it is held:
\* in the cache slot (unless overwritten) and in the tasks awaiting it
Settle(t, e) ==
    /\ buffers' = [k \in ChunkIdx |-> IF buffers[k] = Pending(t) THEN e ELSE buffers[k]]
    /\ task' = [u \in Tasks |->
                  IF task[u].pc = "await" /\ task[u].awaiting = Pending(t)
                  THEN [task[u] EXCEPT !.awaiting = e] ELSE task[u]]

\* the executor's decodeAudioData returns, and resolve(audioBuffer) runs; or
\* it throws inside the async executor: the executor's own promise rejects
\* with no handler and the slot's promise never settles
PrefetchDecode(t) ==
    /\ pf[t].pc = "decode"
    /\ IF pf[t].bytes = "written"
       THEN /\ Settle(t, Resolved(pf[t].idx))
            /\ decoded' = [decoded EXCEPT ![pf[t].idx] = @ + 1]
            /\ UNCHANGED unhandled
       ELSE /\ Settle(t, Stuck)
            /\ unhandled' = unhandled \cup {"prefetch"}
            /\ UNCHANGED decoded
    /\ pf' = [pf EXCEPT ![t] = NoPrefetch]
    /\ UNCHANGED <<files, splitter, blobs, sampleRate, numOfChannels, initPc, initProject, lastInit, status>>
    /\ UNCHANGED notBufVars

BufNext ==
    \/ SplitBegin(TRUE)
    \/ WriteBegin(TRUE)
    \/ WriteClose(TRUE, TRUE)
    \/ InitSampleCall
    \/ InitSampleExist
    \/ InitSampleRead
    \/ InitSampleDecode
    \/ \E t \in Tasks, r \in BufRequests : Call(t, r)
    \/ \E t \in Tasks : TaskRead(t)
    \/ \E t \in Tasks : TaskDecode(t)
    \/ \E t \in Tasks : TaskAwait(t)
    \/ \E t \in Tasks : PrefetchExist(t)
    \/ \E t \in Tasks : PrefetchRead(t)
    \/ \E t \in Tasks : PrefetchDecode(t)

SpecBuf == BufInit /\ [][BufNext]_vars

\* SpecBufLive: one caller making its calls one after another, under
\* fairness: every read, every decode and every existence check that was
\* issued completes, and a call whose awaited promise has resolved goes on
Caller == CHOOSE t \in Tasks : TRUE

LiveNext ==
    \/ SplitBegin(TRUE)
    \/ WriteBegin(TRUE)
    \/ WriteClose(TRUE, TRUE)
    \/ InitSampleCall
    \/ InitSampleExist
    \/ InitSampleRead
    \/ InitSampleDecode
    \/ \E r \in BufRequests : Call(Caller, r)
    \/ TaskRead(Caller)
    \/ TaskDecode(Caller)
    \/ TaskAwait(Caller)
    \/ PrefetchExist(Caller)
    \/ PrefetchRead(Caller)
    \/ PrefetchDecode(Caller)

BufFairness ==
    /\ WF_vars(TaskRead(Caller))
    /\ WF_vars(TaskDecode(Caller))
    /\ WF_vars(TaskAwait(Caller))
    /\ WF_vars(PrefetchExist(Caller))
    /\ WF_vars(PrefetchRead(Caller))
    /\ WF_vars(PrefetchDecode(Caller))

SpecBufLive == BufInit /\ [][LiveNext]_vars /\ BufFairness

\* ------------------------------------------------------------------------
\* SpecInit: AudioSample initialised again and again, for the imported
\* project or for one without chunk files, while calls are under way.  The
\* split of a recording of MaxChannels channels has finished: every chunk
\* file is written.
\* ------------------------------------------------------------------------
InitInit ==
    /\ recRate \in 1..MaxRate
    /\ recChannels = MaxChannels
    /\ recLen = FullChunks * AUDIO_BUFFER_SEGMENT_SEC * recRate + PartSamples
    /\ RangeIdle
    /\ CtlIdle
    /\ files = [k \in ChunkIdx |-> IF k < TotalChunks THEN "written" ELSE "absent"]
    /\ splitter = LoopHead(TotalChunks, TRUE)
    /\ blobs = [k \in ChunkIdx |-> IF k < TotalChunks
                                    THEN [name |-> SplitFileName(k)] @@ Mp3Segment(k)
                                    ELSE NoBlob]
    /\ buffers = [k \in ChunkIdx |-> NoEntry]
    /\ sampleRate = DEFAULT_SAMPLE_RATE
    /\ numOfChannels = DEFAULT_CHANNELS
    /\ initPc = "new"
    /\ initProject = Imported
    /\ lastInit = "none"
    /\ status = ""
    /\ task = [t \in Tasks |-> IdleTask]
    /\ pf = [t \in Tasks |-> NoPrefetch]
    /\ decoded = [k \in ChunkIdx |-> 0]
    /\ unhandled = {}

\* initSample called once no earlier initSample is under way
ReInitSample(project) ==
    /\ initPc \in {"new", "returned true", "returned false", "threw"}
    /\ InitSample(project)

InitNext ==
    \/ \E project \in Projects : ReInitSample(project)
    \/ InitSampleExist
    \/ InitSampleRead
    \/ InitSampleDecode
    \/ \E t \in Tasks, r \in BufRequests : Call(t, r)
    \/ \E t \in Tasks : TaskRead(t)
    \/ \E t \in Tasks : TaskDecode(t)
    \/ \E t \in Tasks : TaskAwait(t)
    \/ \E t \in Tasks : PrefetchExist(t)
    \/ \E t \in Tasks : PrefetchRead(t)
    \/ \E t \in Tasks : PrefetchDecode(t)

SpecInit == InitInit /\ [][InitNext]_vars

\* ------------------------------------------------------------------------
\* SpecSplit: the import of a recording, from the call of splitMp3Segments
\* to its end or to the exception that ends it.
\* ------------------------------------------------------------------------
\* lengths around the chunk boundaries
SplitLens(rate) ==
    LET n == AUDIO_BUFFER_SEGMENT_SEC * rate
    IN  RecLens(rate) \cup {1, n - 1, n, n + 1, FullChunks * n - 1, FullChunks * n + 1}

SplitInit ==
    /\ recRate \in 1..MaxRate
    /\ recChannels \in 1..MaxChannels
    /\ recLen \in SplitLens(recRate)
    /\ RangeIdle
    /\ BufIdle
    /\ CtlIdle

\* after the reload that ends an import, or after one that failed, the
\* user picks another recording whose file name gives the same project:
\* handleFileSelect starts afresh on the same folder
NewImport ==
    /\ splitter.pc \in {"done", "failed"}
    /\ recLen' \in SplitLens(recRate)
    /\ splitter' = SplitIdle
    /\ blobs' = [k \in ChunkIdx |-> NoBlob]
    /\ UNCHANGED <<recRate, recChannels, rq, res>>
    /\ UNCHANGED <<files, buffers, sampleRate, numOfChannels, initPc, initProject, lastInit,
                   status, task, pf, decoded, unhandled>>
    /\ UNCHANGED ctlVars
    /\ UNCHANGED auxVars

SplitNext ==
    \/ NewImport
    \/ \E encoded \in BOOLEAN : SplitBegin(encoded)
    \/ \E ok \in BOOLEAN : WriteBegin(ok)
    \/ \E ok, encoded \in BOOLEAN : WriteClose(ok, encoded)

SpecSplit == SplitInit /\ [][SplitNext]_vars

\* ------------------------------------------------------------------------
\* Properties of the chunk cache (SpecBuf)
\* ------------------------------------------------------------------------
\* the loads (store read, then decode) of chunk k now in flight
InFlight(k) ==
    Cardinality({t \in Tasks : task[t].pc \in {"read", "decode"} /\ task[t].bufIdx = k})
    + Cardinality({t \in Tasks : pf[t].pc \in {"read", "decode"} /\ pf[t].idx = k})
    + (IF k = 0 /\ initPc \in {"read", "decode", "decode empty"} THEN 1 ELSE 0)

\* C1: for every chunk index, the loads in flight and the decodes completed
\* since initSample number at most one (loads that failed are not counted)
C1_OneLoadPerChunk == \A k \in ChunkIdx : InFlight(k) + decoded[k] <= 1

\* the buffer task t's call returned is what the call computes on its own
ReturnedIntact(t) ==
    task[t].pc = "done" =>
        task[t].data = createSegmentBuffer(task[t].startT, task[t].durT,
                           task[t].sampleRate, task[t].numberOfChannels,
                           TRUE, ChunkIdx).data

\* C9: a failing prefetch leaves no rejection unhandled, fails no call and
\* leaves the buffers already returned as they were
C9_PrefetchFailureContained ==
    /\ "prefetch" \notin unhandled
    /\ \A t \in Tasks : ReturnedIntact(t)

\* C10: a call that needs an absent chunk file fails without a buffer and
\* without a cache entry for that chunk, and the same request made again
\* once its files are written does not fail and is not left waiting on a
\* promise that never settles
C10_MissingChunkThenRetry ==
    \A t \in Tasks :
        /\ (task[t].pc = "failed" /\ task[t].error = "NotFoundError")
              => /\ task[t].data = <<>>
                 /\ files[task[t].bufIdx] = "absent" => buffers[task[t].bufIdx] = NoEntry
        /\ (task[t].retry /\ task[t].ready)
              => /\ task[t].pc # "failed"
                 /\ ~(task[t].pc = "await" /\ task[t].awaiting = Stuck)

\* ------------------------------------------------------------------------
\* Properties of initialisation (SpecInit)
\* ------------------------------------------------------------------------
\* C11: a createSegmentBuffer call made when no initSample has returned
\* true yet, or when the last initSample to return returned false, fails
\* with "Not yet loaded" at once: it reads no file, decodes nothing, fills
\* no slot and launches no prefetch
C11_NotInitializedFails ==
    \A t \in Tasks :
        task[t].uninit => /\ task[t].pc = "failed"
                          /\ task[t].error = "Not yet loaded"

\* C12: after initSample has returned false (chunk 0's file absent; it
\* never throws then) isLoaded() is false; after it has returned true buffers[0] holds decoded chunk 0 and sampleRate and
\* numOfChannels are the recording's
C12_InitializeResult ==
    /\ initPc = "threw" => FileOf(initProject, 0) # "absent"
    /\ initPc = "returned false" => buffers[0] = NoEntry
    /\ initPc = "returned true" => /\ buffers[0] = Resolved(0)
                                   /\ sampleRate = recRate
                                   /\ numOfChannels = recChannels

\* C25: between initialisations a cache slot that holds an entry keeps it:
\* the only change is the settling of the promise it holds
C25_NoLostUpdate ==
    [][\A k \in ChunkIdx :
          (initPc' = initPc /\ buffers[k] # NoEntry /\ buffers'[k] # buffers[k])
              => \E t \in Tasks : /\ buffers[k] = Pending(t)
                                  /\ PrefetchDecode(t)]_vars

\* C26: a call that reaches chunk k while the cache holds a pending entry
\* for k starts no read or decode of k: it awaits that entry, and what it
\* copies from, once the entry has resolved, is the decoded chunk k
C26_PendingIsReused ==
    [][\A t \in Tasks :
          /\ (task'[t].pc = "read" /\ task'[t] # task[t])
                 => buffers[task'[t].bufIdx] = NoEntry
          /\ (task'[t].pc = "await" /\ task'[t].awaiting.kind = "pending")
                 => \/ task'[t] = task[t]
                    \/ task'[t].awaiting = buffers[task'[t].bufIdx]
          /\ (task'[t].pc = "await" /\ task'[t].awaiting.kind = "value")
                 => task'[t].awaiting.ref = task'[t].bufIdx]_vars

\* a call awaits the promise a prefetch has put into the cache
C26_Witness ==
    \E t \in Tasks : /\ task[t].pc = "await"
                     /\ task[t].awaiting.kind = "pending"
                     /\ buffers[task[t].bufIdx] = task[t].awaiting

\* C27: a prefetch runs only for a call that has returned its buffer with
\* every channel written, and for the chunk after the call's last one; it
\* is launched at the return iff that chunk is not cached, it goes on to
\* read iff the chunk's file exists, and a call that fails launches none
C27_PrefetchAfterReturn ==
    [][\A t \in Tasks :
          LET tk == task'[t]
              L  == Locals(tk.startT, tk.durT, tk.sampleRate)
          IN  /\ pf'[t].pc # "none"
                     => /\ tk.pc = "done"
                        /\ Len(tk.data) = tk.numberOfChannels
                        /\ \A c \in 1..Len(tk.data) : tk.written[c] = L.totalSamples
                        /\ pf'[t].idx = L.endBufferIdx + 1
              /\ (tk.pc = "done" /\ task[t].pc # "done")
                     => pf'[t].pc = IF buffers[L.endBufferIdx + 1] = NoEntry
                                    THEN "exist" ELSE "none"
              /\ (tk.pc = "failed" /\ task[t].pc # "failed")
                     => pf'[t].pc = "none"
              /\ (pf[t].pc = "exist" /\ pf'[t] # pf[t])
                     => pf'[t].pc = IF files[pf[t].idx] = "absent"
                                    THEN "none" ELSE "read"
              /\ pf'[t].pc \in {"read", "decode"}
                     => files'[pf'[t].idx] # "absent"]_vars

\* the prefetch is reading the next chunk after the call has returned
C27_Witness ==
    \E t \in Tasks : /\ task[t].pc = "done"
                     /\ pf[t].pc = "read"
                     /\ buffers[pf[t].idx] = Pending(t)

\* the call of task record tk is inside its loops
InLoops(tk) == tk.pc \in {"read", "decode", "await"}

\* floor(S/N) and floor(E/N) of the request of tk
FirstChunk(tk) ==
    SampleIdx(tk.startT, tk.sampleRate) \div (AUDIO_BUFFER_SEGMENT_SEC * tk.sampleRate)

LastChunk(tk) ==
    SampleIdx(tk.startT + tk.durT, tk.sampleRate) \div (AUDIO_BUFFER_SEGMENT_SEC * tk.sampleRate)

\* C28: a call resolves chunks floor(S/N)..floor(E/N) and no other: it
\* starts at floor(S/N) on channel 0, goes from a chunk to the next one, or
\* from floor(E/N) to floor(S/N) of the next channel, and returns from
\* floor(E/N) of the last channel
C28_ChunksVisited ==
    [][\A t \in Tasks :
          LET old == task[t]
              new == task'[t]
          IN  /\ InLoops(new)
                     => /\ FirstChunk(new) <= new.bufIdx
                        /\ new.bufIdx <= LastChunk(new)
                        /\ new.channel < new.numberOfChannels
              /\ (InLoops(new) /\ ~InLoops(old))
                     => new.bufIdx = FirstChunk(new) /\ new.channel = 0
              /\ (InLoops(new) /\ InLoops(old))
                     => \/ new.bufIdx = old.bufIdx /\ new.channel = old.channel
                        \/ new.bufIdx = old.bufIdx + 1 /\ new.channel = old.channel
                        \/ /\ old.bufIdx = LastChunk(old)
                           /\ new.bufIdx = FirstChunk(new)
                           /\ new.channel = old.channel + 1
              /\ (new.pc = "done" /\ old.pc # "done")
                     => /\ InLoops(old)
                        /\ old.bufIdx = LastChunk(old)
                        /\ old.channel = old.numberOfChannels - 1]_vars

\* a call over two chunks has come to the last chunk of its second channel
C28_Witness ==
    \E t \in Tasks : /\ InLoops(task[t])
                     /\ task[t].channel = 1
                     /\ FirstChunk(task[t]) < LastChunk(task[t])
                     /\ task[t].bufIdx = LastChunk(task[t])

\* C32: when reading or decoding chunk 0 fails in initSample, the failure is
\* caught and a status is set for it (the status is not what it was before
\* the call, nor that of a success), no rejection is left unhandled, and
\* isLoaded() is false
C32_InitFailureSurfaced ==
    initPc = "threw"
        => /\ "initSample" \notin unhandled
           /\ status \notin {"", "Segment initialized"}
           /\ buffers[0] = NoEntry

\* C35: every call that is inside its loops returns or throws in the end
C35_CallsTerminate ==
    (task[Caller].pc \in {"read", "decode", "await"})
        ~> (task[Caller].pc \in {"done", "failed"})

\* C24: a decode started before an initSample puts nothing into the cache
\* that initSample has cleared: until initSample itself stores chunk 0,
\* and after it has returned false, the cache holds nothing
C24_NoStaleInsert ==
    initPc \in {"exist", "read", "decode", "decode empty", "returned false"}
        => \A k \in ChunkIdx : buffers[k] = NoEntry

\* ------------------------------------------------------------------------
\* SpecCtl: the playback controller.  A playAudioSegment call runs up to
\* its await of createSegmentBuffer in one step and from there to its end
\* in another; in between, clicks, media keys and ended events run.
\* ------------------------------------------------------------------------
\* the scene of every segment: a new scene at index 0 and at every index
\* in marks
SceneNo(i, marks) == 1 + Cardinality({b \in marks : b <= i})

Segments(marks) == [i \in 1..NumSegments |-> NanoId(SceneNo(i - 1, marks))]

\* the transcripts: a scene marker on the second segment, or on the last
ScenePatterns == {{1}, {NumSegments - 1}}

CtlInit ==
    /\ recRate = 1 /\ recChannels = 1 /\ recLen = 1
    /\ RangeIdle
    /\ BufIdle
    /\ segs \in {Segments(marks) : marks \in ScenePatterns}
    /\ lsIndex \in {0, NumSegments, NumSegments + 1}
    /\ segIndex = lsIndex
    /\ playInfo = NoPlayInfo
    /\ detached = EmptyBag
    /\ call = EmptyBag
    /\ ctlStatus = ""
    /\ stray = FALSE
    /\ track = FALSE
    /\ srt = <<>>
    /\ segments = <<>>

\* what the actions of the controller leave alone
notCtlVars ==
    <<recLen, recRate, recChannels, rq, res, files, splitter, blobs, buffers, sampleRate,
      numOfChannels, initPc, initProject, lastInit, status, task, pf, decoded, unhandled,
      track, srt, segments>>

\* Array.prototype.findIndex over the sceneIds, 0-based, -1 when none
FindIndex(ids, id) ==
    IF \E i \in 1..Len(ids) : ids[i] = id
    THEN (CHOOSE i \in 1..Len(ids) : ids[i] = id /\ \A j \in 1..(i - 1) : ids[j] # id) - 1
    ELSE -1

Sounding(nd) == nd.state \in {"cue", "playing"}

\* stopPlayback(playContext) on playInfo pi.  stop() on a node that was
\* never started throws InvalidStateError: the listener is already removed
\* then, and playInfo is left as it was
stopPlayback(pi) ==
    IF pi = NoPlayInfo
    THEN [threw |-> FALSE, playInfo |-> pi]
    ELSE LET nd == IF pi.stopListener
                   THEN [pi.abSrcNode EXCEPT !.listener = FALSE, !.nextIndex = 0]
                   ELSE pi.abSrcNode
         IN  IF nd.state = "cue"
             THEN [threw |-> TRUE, playInfo |-> [pi EXCEPT !.abSrcNode = nd]]
             ELSE [threw |-> FALSE, playInfo |-> NoPlayInfo]

\* playAudioSegment(index, singleEntryLoop, initRangeInfo) from its start to
\* its await, with playInfo pi: the values of the controller's state after
\* it
Part1(index, singleEntryLoop, initRangeInfo, pi) ==
    LET prevRangeInfo == pi.rangeInfo
        st   == stopPlayback(pi)
        same == [ playInfo |-> st.playInfo, call |-> call, segIndex |-> segIndex,
                  lsIndex |-> lsIndex, ctlStatus |-> ctlStatus ]
    IN  IF st.threw
        THEN [same EXCEPT !.ctlStatus = "Error playing audio segment"]
        ELSE IF index \notin Indices
        THEN same
        ELSE [ playInfo  |-> st.playInfo,
               call      |-> call (+) SetToBag({AwaitingCall(index, singleEntryLoop,
                                                             initRangeInfo,
                                                             prevRangeInfo)}),
               segIndex  |-> index,
               lsIndex   |-> index,
               ctlStatus |-> ctlStatus ]

\* the model can follow the call: it throws or returns early, or one more
\* call may be suspended
CanRun(index, pi) ==
    \/ stopPlayback(pi).threw
    \/ index \notin Indices
    \/ BagCardinality(call) < MaxCalls

Apply(r) ==
    /\ playInfo' = r.playInfo
    /\ call' = r.call
    /\ segIndex' = r.segIndex
    /\ lsIndex' = r.lsIndex
    /\ ctlStatus' = r.ctlStatus

\* the nodes playInfo has lost that still sound with their listener
\* attached are the clips earlier than this navigation that can advance
MarkOld ==
    LET Mark(nd) == IF Sounding(nd) /\ nd.listener THEN [nd EXCEPT !.old = TRUE]
                    ELSE nd
        Marked   == {Mark(nd) : nd \in BagToSet(detached)}
        Count(m) == LET from == {nd \in BagToSet(detached) : Mark(nd) = m}
                        RECURSIVE Sum(_)
                        Sum(S) == IF S = {} THEN 0
                                  ELSE LET x == CHOOSE x \in S : TRUE
                                       IN  detached[x] + Sum(S \ {x})
                    IN  Sum(from)
    IN  [m \in Marked |-> Count(m)]

\* the suspended calls after a stop: the same calls (when track is set,
\* known to be from before it)
MarkStopped ==
    LET Mark(k)  == IF track THEN [k EXCEPT !.stopped = TRUE] ELSE k
        Marked   == {Mark(k) : k \in BagToSet(call)}
        Count(m) == LET from == {k \in BagToSet(call) : Mark(k) = m}
                        RECURSIVE Sum(_)
                        Sum(S) == IF S = {} THEN 0
                                  ELSE LET x == CHOOSE x \in S : TRUE
                                       IN  call[x] + Sum(S \ {x})
                    IN  Sum(from)
    IN  [m \in Marked |-> Count(m)]

\* the Play / Stop button
ClickStop ==
    /\ playInfo # NoPlayInfo
    /\ LET st == stopPlayback(playInfo)
       IN  /\ playInfo' = st.playInfo
           /\ ctlStatus' = IF st.threw THEN ctlStatus ELSE "stopped"
    /\ call' = MarkStopped
    /\ stray' = FALSE
    /\ UNCHANGED <<segs, detached, segIndex, lsIndex>>
    /\ UNCHANGED notCtlVars

ClickPlay ==
    /\ playInfo = NoPlayInfo
    /\ CanRun(segIndex, playInfo)
    /\ Apply(Part1(segIndex, FALSE, NoRange, playInfo))
    /\ stray' = FALSE
    /\ UNCHANGED <<segs, detached>>
    /\ UNCHANGED notCtlVars

\* Prev (delta -1): segIndex > 0 && playAudioSegment(segIndex - 1, true);
\* Next (delta 1): segIndex < segments.length - 1 &&
\* playAudioSegment(segIndex + 1, true)
Navigate_RangeFollowing(delta) ==
    IF \/ delta = -1 /\ segIndex > 0
       \/ delta = 1 /\ segIndex < Len(segs) - 1
    THEN /\ CanRun(segIndex + delta, playInfo)
         /\ Apply(Part1(segIndex + delta, FALSE, NoRange, playInfo))
         /\ detached' = MarkOld
         /\ stray' = FALSE
         /\ UNCHANGED segs
         /\ UNCHANGED notCtlVars
    ELSE UNCHANGED vars

Navigate(delta) ==
    IF \/ delta = -1 /\ segIndex > 0
       \/ delta = 1 /\ segIndex < Len(segs) - 1
    THEN /\ CanRun(segIndex + delta, playInfo)
         /\ Apply(Part1(segIndex + delta, TRUE, NoRange, playInfo))
         /\ detached' = MarkOld
         /\ stray' = FALSE
         /\ UNCHANGED segs
         /\ UNCHANGED notCtlVars
    ELSE UNCHANGED vars

\* the play button of row index
RowPlay(index) ==
    /\ CanRun(index, playInfo)
    /\ Apply(Part1(index, TRUE, NoRange, playInfo))
    /\ detached' = MarkOld
    /\ stray' = FALSE
    /\ UNCHANGED segs
    /\ UNCHANGED notCtlVars

\* the least and the greatest of a set of numbers
SetMin(S) == CHOOSE x \in S : \A y \in S : x <= y

SetMax(S) == CHOOSE x \in S : \A y \in S : x >= y

\* selectedItems, a Set<number>: its elements in the order they were added
Selections ==
    UNION {{q \in [1..n -> Indices] : \A i, j \in 1..n : i # j => q[i] # q[j]} :
           n \in 0..NumSegments}

\* Array.prototype.sort((a, b) => a - b): ascending by value
RECURSIVE SortNumeric(_)
SortNumeric(items) ==
    IF Len(items) <= 1 THEN items
    ELSE LET rest   == SortNumeric(Tail(items))
             before == SelectSeq(rest, LAMBDA y : y - Head(items) < 0)
             after  == SelectSeq(rest, LAMBDA y : ~(y - Head(items) < 0))
         IN  before \o <<Head(items)>> \o after

\* what the Play Selected button asks of playAudioSegment: nothing with an
\* empty selection, else the range from the first to the last of the
\* sorted selection, played from the first
NoRequest == [ index |-> -1, singleEntryLoop |-> FALSE, initRangeInfo |-> NoRange ]

SelectedRequest_AsInserted(selectedItems) ==
    IF Len(selectedItems) = 0 THEN NoRequest
    ELSE [ index |-> selectedItems[1],
           singleEntryLoop |-> FALSE,
           initRangeInfo |-> [ type |-> "selected",
                               beginIdx |-> selectedItems[1],
                               endIdx |-> selectedItems[Len(selectedItems)] + 1 ] ]

SelectedRequest(selectedItems) ==
    IF Len(selectedItems) = 0 THEN NoRequest
    ELSE LET selectedArray == SortNumeric(selectedItems)
         IN  [ index |-> selectedArray[1],
               singleEntryLoop |-> FALSE,
               initRangeInfo |-> [ type |-> "selected",
                                   beginIdx |-> selectedArray[1],
                                   endIdx |-> selectedArray[Len(selectedArray)] + 1 ] ]

\* the requests of all the selections
SelectedRequests == {SelectedRequest(selectedItems) : selectedItems \in Selections}

playSelectedItems ==
    \E rq0 \in SelectedRequests :
        IF rq0 = NoRequest
        THEN UNCHANGED vars
        ELSE /\ CanRun(rq0.index, playInfo)
             /\ Apply(Part1(rq0.index, rq0.singleEntryLoop, rq0.initRangeInfo, playInfo))
             /\ stray' = FALSE
             /\ UNCHANGED <<segs, detached>>
             /\ UNCHANGED notCtlVars

\* the media session's pause and play handlers
MediaPause ==
    /\ playInfo' = stopPlayback(playInfo).playInfo
    /\ ctlStatus' = "Paused by headset/media key"
    /\ call' = MarkStopped
    /\ stray' = FALSE
    /\ UNCHANGED <<segs, detached, segIndex, lsIndex>>
    /\ UNCHANGED notCtlVars

MediaPlay ==
    /\ CanRun(lsIndex, playInfo)
    /\ Apply(Part1(lsIndex, FALSE, NoRange, playInfo))
    /\ stray' = FALSE
    /\ UNCHANGED <<segs, detached>>
    /\ UNCHANGED notCtlVars

\* localStorage is shared by the tabs of the origin and lastPlayIndex is
\* one key for all projects: another tab playing a longer project saves an
\* index that is none of this tab's
OtherTabSave ==
    /\ lsIndex # NumSegments
    /\ lsIndex' = NumSegments
    /\ stray' = FALSE
    /\ UNCHANGED <<segs, playInfo, detached, call, segIndex, ctlStatus>>
    /\ UNCHANGED notCtlVars

\* the scene range computed when no range is given or carried over
SceneRange_EndAtIndex(index) ==
    LET sceneBeginIdx == FindIndex(segs, segs[index + 1])
    IN  [ type     |-> "scene",
          beginIdx |-> IF sceneBeginIdx = -1 THEN index ELSE sceneBeginIdx,
          endIdx   |-> index ]

SceneRange(index) ==
    LET sceneId       == segs[index + 1]
        sceneBeginIdx == FindIndex(segs, sceneId)
        sceneEndIdx   == FindIndex(segs, PlusOne(sceneId))
    IN  [ type     |-> "scene",
          beginIdx |-> IF sceneBeginIdx = -1 THEN index ELSE sceneBeginIdx,
          endIdx   |-> IF sceneEndIdx = -1 THEN Len(segs) ELSE sceneEndIdx ]

\* rangeInfo = initRangeInfo ? initRangeInfo : prevRangeInfo ? ... : fresh
ResolveRange(index, initRangeInfo, prevRangeInfo) ==
    IF initRangeInfo # NoRange THEN initRangeInfo
    ELSE IF prevRangeInfo # NoRange THEN prevRangeInfo
    ELSE SceneRange(index)

\* the last index of the range followed by itself
NextIndex_StayAtEnd(index, rangeInfo) ==
    IF index + 1 >= rangeInfo.endIdx THEN index ELSE index + 1

NextIndex(index, rangeInfo) ==
    IF index + 1 >= rangeInfo.endIdx THEN rangeInfo.beginIdx ELSE index + 1

\* playBeep = rangeInfo && rangeInfo.type === "scene" &&
\* rangeInfo.beginIdx === index
PlayBeep_AnyRange(index, rangeInfo) ==
    /\ rangeInfo # NoRange
    /\ rangeInfo.beginIdx = index

PlayBeep(index, rangeInfo) ==
    /\ rangeInfo # NoRange
    /\ rangeInfo.type = "scene"
    /\ rangeInfo.beginIdx = index

\* the node playInfo held, once playInfo is overwritten: nothing stopped
\* it, so it stays among the sounding nodes
Lost(pi) == IF Sounding(pi.abSrcNode) THEN SetToBag({pi.abSrcNode}) ELSE EmptyBag

\* createSegmentBuffer has returned (ok) or thrown: the rest of call k
CallReturn(k, ok) ==
    /\ BagIn(k, call)
    /\ ok => BagCardinality(detached (+) Lost(playInfo)) < MaxNodes
    /\ LET rangeInfo == IF k.singleEntryLoop THEN NoRange
                        ELSE ResolveRange(k.index, k.initRangeInfo, k.prevRangeInfo)
           playBeep == PlayBeep(k.index, rangeInfo)
           fresh == /\ ~k.singleEntryLoop
                    /\ k.initRangeInfo = NoRange
                    /\ k.prevRangeInfo = NoRange
           abSrcNode ==
               [ state     |-> IF playBeep THEN "cue" ELSE "playing",
                 loop      |-> k.singleEntryLoop,
                 listener  |-> ~k.singleEntryLoop,
                 nextIndex |-> IF k.singleEntryLoop THEN 0
                               ELSE NextIndex(k.index, rangeInfo),
                 old       |-> FALSE ]
       IN  IF ~ok
           THEN /\ ctlStatus' = "Error playing audio segment"
                /\ UNCHANGED <<playInfo, detached>>
           ELSE /\ playInfo' = [ abSrcNode |-> abSrcNode,
                                 stopListener |-> ~k.singleEntryLoop,
                                 rangeInfo |-> rangeInfo,
                                 freshFor |-> IF fresh THEN k.index ELSE -1,
                                 index |-> k.index ]
                /\ detached' = detached (+) Lost(playInfo)
                /\ ctlStatus' = "current"
    /\ call' = call (-) SetToBag({k})
    /\ stray' = FALSE
    /\ UNCHANGED <<segs, segIndex, lsIndex>>
    /\ UNCHANGED notCtlVars

\* the cue tone's onended: abSrcNode.start(), for playInfo's node
BeepEnded ==
    /\ playInfo.abSrcNode.state = "cue"
    /\ playInfo' = [playInfo EXCEPT !.abSrcNode.state = "playing"]
    /\ stray' = FALSE
    /\ UNCHANGED <<segs, detached, call, segIndex, lsIndex, ctlStatus>>
    /\ UNCHANGED notCtlVars

\* and for a node playInfo has lost
BeepEndedLost(nd) ==
    /\ BagIn(nd, detached)
    /\ nd.state = "cue"
    /\ detached' = (detached (-) SetToBag({nd}))
                       (+) SetToBag({[nd EXCEPT !.state = "playing"]})
    /\ stray' = FALSE
    /\ UNCHANGED <<segs, playInfo, call, segIndex, lsIndex, ctlStatus>>
    /\ UNCHANGED notCtlVars

\* playInfo's clip, not looping, plays to its end: the ended event runs the
\* listener still attached, playAudioSegment(nextIndex, false)
NodeEnded ==
    /\ playInfo.abSrcNode.state = "playing"
    /\ ~playInfo.abSrcNode.loop
    /\ LET pi == [playInfo EXCEPT !.abSrcNode.state = "ended"]
       IN  IF pi.abSrcNode.listener
           THEN /\ CanRun(pi.abSrcNode.nextIndex, pi)
                /\ Apply(Part1(pi.abSrcNode.nextIndex, FALSE, NoRange, pi))
           ELSE /\ playInfo' = pi
                /\ UNCHANGED <<call, segIndex, lsIndex, ctlStatus>>
    /\ stray' = FALSE
    /\ UNCHANGED <<segs, detached>>
    /\ UNCHANGED notCtlVars

\* the same for a clip playInfo has lost
NodeEndedLost(nd) ==
    /\ BagIn(nd, detached)
    /\ nd.state = "playing"
    /\ ~nd.loop
    /\ detached' = detached (-) SetToBag({nd})
    /\ IF nd.listener
       THEN /\ CanRun(nd.nextIndex, playInfo)
            /\ Apply(Part1(nd.nextIndex, FALSE, NoRange, playInfo))
            /\ stray' = nd.old
       ELSE /\ stray' = FALSE
            /\ UNCHANGED <<playInfo, call, segIndex, lsIndex, ctlStatus>>
    /\ UNCHANGED segs
    /\ UNCHANGED notCtlVars

CtlNext ==
    \/ ClickStop
    \/ ClickPlay
    \/ MediaPause
    \/ MediaPlay
    \/ OtherTabSave
    \/ \E delta \in {-1, 1} : Navigate(delta)
    \/ \E index \in Indices : RowPlay(index)
    \/ playSelectedItems
    \/ \E k \in BagToSet(call), ok \in BOOLEAN : CallReturn(k, ok)
    \/ BeepEnded
    \/ \E nd \in BagToSet(detached) : BeepEndedLost(nd)
    \/ NodeEnded
    \/ \E nd \in BagToSet(detached) : NodeEndedLost(nd)

SpecCtl == CtlInit /\ [][CtlNext]_vars

\* ------------------------------------------------------------------------
\* SpecLoop: range-loop playback left to itself.  The user starts a range
\* from the idle page, with the Play button or with Play Selected, and
\* does nothing more; every buffer arrives, every cue tone and every clip
\* ends.  Other tabs may still write lastPlayIndex.
\* ------------------------------------------------------------------------
\* the first and only click
StartRange ==
    /\ playInfo = NoPlayInfo
    /\ call = EmptyBag
    /\ ctlStatus = ""
    /\ \/ ClickPlay
       \/ playSelectedItems

\* createSegmentBuffer returns the buffer of a suspended call
BufferArrives == \E k \in BagToSet(call) : CallReturn(k, TRUE)

LoopNext ==
    \/ StartRange
    \/ BufferArrives
    \/ BeepEnded
    \/ NodeEnded
    \/ OtherTabSave

\* an awaited buffer arrives, a started tone or clip comes to its end
LoopFairness ==
    /\ WF_vars(BufferArrives)
    /\ WF_vars(BeepEnded)
    /\ WF_vars(NodeEnded)

SpecLoop == CtlInit /\ [][LoopNext]_vars /\ LoopFairness

\* ------------------------------------------------------------------------
\* SpecTrack: the controller with the bookkeeping of the suspended calls
\* switched on, from a valid saved index: the buttons of the page and the
\* media key pause, with no selection and no other tab
\* ------------------------------------------------------------------------
TrackInit ==
    /\ recRate = 1 /\ recChannels = 1 /\ recLen = 1
    /\ RangeIdle
    /\ BufIdle
    /\ segs \in {Segments(marks) : marks \in ScenePatterns}
    /\ lsIndex = 0
    /\ segIndex = lsIndex
    /\ playInfo = NoPlayInfo
    /\ detached = EmptyBag
    /\ call = EmptyBag
    /\ ctlStatus = ""
    /\ stray = FALSE
    /\ track = TRUE
    /\ srt = <<>>
    /\ segments = <<>>

TrackNext ==
    \/ ClickStop
    \/ ClickPlay
    \/ MediaPause
    \/ \E delta \in {-1, 1} : Navigate(delta)
    \/ \E k \in BagToSet(call), ok \in BOOLEAN : CallReturn(k, ok)
    \/ BeepEnded
    \/ \E nd \in BagToSet(detached) : BeepEndedLost(nd)
    \/ NodeEnded
    \/ \E nd \in BagToSet(detached) : NodeEndedLost(nd)

SpecTrack == TrackInit /\ [][TrackNext]_vars

\* ------------------------------------------------------------------------
\* SpecIngest: the transcript made into segments when the page mounts.
\* Times are counted in half milliseconds, so that the halves of the gaps
\* and the rounding of the parsed times are exact.
\* ------------------------------------------------------------------------
MAX_GAP_MSEC == 400

\* SCENE_TAG = /^\[SCENE] /; a text is the sequence of its pieces, a piece
\* being the marker or some other words
SceneMarker == "[SCENE] "

\* the marker matched wherever it stands in the text
SceneTagTest_Anywhere(text) == \E i \in 1..Len(text) : text[i] = SceneMarker

\* SCENE_TAG.test(text)
SceneTagTest(text) == Len(text) > 0 /\ text[1] = SceneMarker

\* text.replace(SCENE_TAG, "")
RemoveSceneTag(text) == IF SceneTagTest(text) THEN Tail(text) ELSE text

\* Math.round(seconds * 1000) of a time given in half milliseconds
RoundMsec(halfMsec) == (halfMsec + 1) \div 2

\* the texts: plain, begun with the marker, with the marker inside, begun
\* with two markers
Texts ==
    { <<"words">>, <<SceneMarker, "words">>, <<"words", SceneMarker, "more">>,
      <<SceneMarker, SceneMarker, "words">> }

\* the parsed times, in half milliseconds: 0, 999.5 ms, 1001 ms, 2 s, 4 s
Instants == {0, 1999, 2002, 4000, 8000}

\* what srtParser returns for one cue
SrtEntries ==
    {e \in [startSeconds : Instants, endSeconds : Instants, text : Texts] :
        e.startSeconds < e.endSeconds}

\* the first map from element idx on, count scenes begun so far: the text
\* without its marker, the times in milliseconds, the sceneId
RECURSIVE FirstMap(_, _, _)
FirstMap(elems, idx, count) ==
    IF idx >= Len(elems) THEN <<>>
    ELSE LET elem == elems[idx + 1]
             revisedText == RemoveSceneTag(elem.text)
             begun == IF idx = 0 \/ SceneTagTest(elem.text) THEN count + 1 ELSE count
         IN  << [ startMsec |-> RoundMsec(elem.startSeconds),
                  endMsec   |-> RoundMsec(elem.endSeconds),
                  text      |-> revisedText,
                  sceneId   |-> NanoId(begun) ] >>
             \o FirstMap(elems, idx + 1, begun)

\* the second map: each boundary moved by half the gap to the neighbour,
\* by MAX_GAP_MSEC at most; startTime and endTime in half milliseconds
SecondMap(all) ==
    [ i \in 1..Len(all) |->
        LET elem == all[i]
            prevGapMsec == IF i = 1 THEN 0 ELSE elem.startMsec - all[i - 1].endMsec
            nextGapMsec == IF i = Len(all) THEN 0 ELSE all[i + 1].startMsec - elem.endMsec
        IN  [ startTime |-> 2 * elem.startMsec - Min(2 * MAX_GAP_MSEC, prevGapMsec),
              endTime   |-> 2 * elem.endMsec + Min(2 * MAX_GAP_MSEC, nextGapMsec),
              text      |-> elem.text,
              sceneId   |-> elem.sceneId ] ]

IngestInit ==
    /\ recRate = 1 /\ recChannels = 1 /\ recLen = 1
    /\ RangeIdle
    /\ BufIdle
    /\ segs = <<>>
    /\ playInfo = NoPlayInfo
    /\ detached = EmptyBag
    /\ call = EmptyBag
    /\ segIndex = 0
    /\ lsIndex = 0
    /\ ctlStatus = ""
    /\ stray = FALSE
    /\ track = FALSE
    /\ srt \in UNION {[1..n -> SrtEntries] : n \in 1..NumSegments}
    /\ segments = <<>>

\* the mount effect once the sample is loaded and transcript.srt is read
Ingest ==
    /\ segments = <<>>
    /\ segments' = SecondMap(FirstMap(srt, 0, 0))
    /\ ctlStatus' = "current"
    /\ UNCHANGED <<recLen, recRate, recChannels, rq, res>>
    /\ UNCHANGED bufVars
    /\ UNCHANGED <<segs, playInfo, detached, call, segIndex, lsIndex, stray, track, srt>>

SpecIngest == IngestInit /\ [][Ingest]_vars

\* ------------------------------------------------------------------------
\* Properties of the controller (SpecCtl)
\* ------------------------------------------------------------------------
\* the clip nodes started and not stopped or ended
Started ==
    (IF playInfo.abSrcNode.state = "playing" THEN SetToBag({playInfo.abSrcNode})
     ELSE EmptyBag)
    (+) [nd \in {d \in BagToSet(detached) : d.state = "playing"} |-> detached[nd]]

\* C5: at every point in time at most one clip source node is started and
\* not stopped, whatever the interleaving of play requests, one issued
\* while an earlier one still awaits its buffer included
C5_OneClipAtATime == BagCardinality(Started) <= 1

\* C6: after a manual navigation no ended event runs the auto-advance of a
\* clip that was sounding before it
C6_NoStrayAutoAdvance == ~stray

\* the scene containing index: from the first index with its sceneId to the
\* first later index with another one, or to the number of segments
SceneOf(index) ==
    LET sceneId == segs[index + 1]
        first   == CHOOSE i \in Indices :
                       /\ segs[i + 1] = sceneId
                       /\ \A j \in 0..(i - 1) : segs[j + 1] # sceneId
        later   == {j \in Indices : j > index /\ segs[j + 1] # sceneId}
    IN  [ type     |-> "scene",
          beginIdx |-> first,
          endIdx   |-> IF later = {} THEN Len(segs) ELSE SetMin(later) ]

\* C7: a freshly computed scene range is exactly the scene containing the
\* index it was computed for, with type scene
C7_FreshRangeIsTheScene ==
    playInfo.freshFor # -1 => playInfo.rangeInfo = SceneOf(playInfo.freshFor)

\* C8: the index the auto-advance of the current clip will play lies in
\* [beginIdx, endIdx) of the active range
C8_AutoAdvanceStaysInRange ==
    playInfo.abSrcNode.listener
        => /\ playInfo.rangeInfo.beginIdx <= playInfo.abSrcNode.nextIndex
           /\ playInfo.abSrcNode.nextIndex < playInfo.rangeInfo.endIdx

\* playAudioSegment is called with an index that is no segment's: by the
\* Play button or by the media session's play handler
OutOfBoundsCall ==
    \/ ClickPlay /\ segIndex \notin Indices
    \/ MediaPlay /\ lsIndex \notin Indices

\* C13: a playAudioSegment call with an index outside [0, segments.length)
\* changes nothing: not the clip playing, not the range, not segIndex, not
\* the persisted index, not the status
C13_OutOfBoundsIsNoOp ==
    [][OutOfBoundsCall => UNCHANGED <<playInfo, detached, call, segIndex, lsIndex,
                                      ctlStatus>>]_vars

\* C14: when the status is the error message of playAudioSegment's catch,
\* the controller is idle: playInfo holds no clip and no range, and no clip
\* is scheduled or playing, with or without an ended listener
C14_ErrorLeavesIdle ==
    ctlStatus = "Error playing audio segment"
        => /\ playInfo = NoPlayInfo
           /\ detached = EmptyBag

\* the elements of a selection
Selected(selectedItems) == {selectedItems[i] : i \in 1..Len(selectedItems)}

\* C15: Play Selected asks for nothing when the selection is empty; for any
\* other selection, in whatever order it was made, the call it makes is the
\* range playback from the least selected index with the range {least,
\* greatest + 1, selected}
C15_SelectionRange ==
    \A selectedItems \in Selections :
        LET rq0   == SelectedRequest(selectedItems)
            least == SetMin(Selected(selectedItems))
            most  == SetMax(Selected(selectedItems))
        IN  IF selectedItems = <<>>
            THEN rq0 = NoRequest
            ELSE /\ rq0 # NoRequest
                 /\ AwaitingCall(rq0.index, rq0.singleEntryLoop, rq0.initRangeInfo,
                                 playInfo.rangeInfo)
                        = AwaitingCall(least, FALSE,
                                       [ type |-> "selected", beginIdx |-> least,
                                         endIdx |-> most + 1 ],
                                       playInfo.rangeInfo)

\* a selection of several segments is being played as a range
C15_Witness ==
    /\ playInfo.rangeInfo.type = "selected"
    /\ playInfo.rangeInfo.endIdx - playInfo.rangeInfo.beginIdx >= 2
    /\ playInfo.abSrcNode.state = "playing"

C17_SingleLoopOrRange ==
    [][/\ playInfo'.abSrcNode.loop
            => /\ playInfo'.rangeInfo = NoRange
               /\ ~playInfo'.stopListener
               /\ ~playInfo'.abSrcNode.listener
       /\ (playInfo'.abSrcNode # NoNode /\ ~playInfo'.abSrcNode.loop)
            => /\ playInfo'.rangeInfo # NoRange
               /\ playInfo'.stopListener
       /\ \A k \in BagToSet(call) :
              (~k.singleEntryLoop /\ CallReturn(k, TRUE))
                  => playInfo'.abSrcNode.listener
       /\ (playInfo.abSrcNode.loop /\ playInfo.abSrcNode.state = "playing")
            => ~(\E nd \in BagToSet(detached) : nd.listener /\ NodeEndedLost(nd))]_vars

\* C18: a stop by the user (the Stop button, the media key pause) leaves the
\* controller with no clip held and no range active, and with nothing held
\* it changes nothing of the playback
C18_StopLeavesIdle ==
    [][(ClickStop \/ MediaPause) =>
          /\ playInfo' = NoPlayInfo
          /\ UNCHANGED <<detached, call, segIndex, lsIndex>>]_vars

\* C19: Prev and Next play the segment before and after the current one as
\* a single-segment loop when there is one, never in range mode; when there
\* is none they stop nothing and change nothing
C19_NavigateInBounds ==
    [][\A delta \in {-1, 1} :
          Navigate(delta) =>
              IF segIndex + delta \in Indices
              THEN /\ Apply(Part1(segIndex + delta, TRUE, NoRange, playInfo))
                   /\ \A k \in BagToSet(call') :
                          CopiesIn(k, call') > CopiesIn(k, call)
                              => k.singleEntryLoop /\ k.index = segIndex + delta
              ELSE UNCHANGED <<playInfo, detached, call, segIndex, lsIndex,
                               ctlStatus>>]_vars

\* Next was clicked at the first segment: the second is requested as a
\* single-segment loop
C19_Witness ==
    /\ segIndex = 1
    /\ playInfo = NoPlayInfo
    /\ ctlStatus = ""
    /\ \E k \in BagToSet(call) : k.index = 1 /\ k.singleEntryLoop

\* the clips waiting for the end of their cue tone
Cued ==
    (IF playInfo.abSrcNode.state = "cue" THEN 1 ELSE 0)
    + BagCardinality([nd \in {d \in BagToSet(detached) : d.state = "cue"}
                          |-> detached[nd]])

\* C20: a clip waits for a cue tone exactly when it is played in range
\* mode with a range of type scene that begins at its index, never as a
\* single-segment loop or with a range of type selected; and a clip that
\* waits starts only by the end of its cue tone
C20_CueAtSceneStart ==
    [][/\ \A k \in BagToSet(call) :
              CallReturn(k, TRUE) =>
                  playInfo'.abSrcNode.state =
                      IF /\ ~k.singleEntryLoop
                         /\ playInfo'.rangeInfo.type = "scene"
                         /\ playInfo'.rangeInfo.beginIdx = k.index
                      THEN "cue" ELSE "playing"
       /\ playInfo'.abSrcNode.state = "cue"
              => /\ ~playInfo'.abSrcNode.loop
                 /\ playInfo'.rangeInfo.type = "scene"
       /\ Cued' < Cued
              => \/ BeepEnded
                 \/ \E nd \in BagToSet(detached) : BeepEndedLost(nd)]_vars

\* the first segment of a scene range waits for its cue tone
C20_Witness ==
    /\ playInfo.abSrcNode.state = "cue"
    /\ playInfo.rangeInfo.type = "scene"
    /\ playInfo.rangeInfo.beginIdx = segIndex

\* C23: every range that becomes active, computed afresh, built from a
\* selection or carried over, has 0 <= beginIdx < endIdx <= the number of
\* segments
C23_RangeWellFormed ==
    playInfo.rangeInfo # NoRange
        => /\ 0 <= playInfo.rangeInfo.beginIdx
           /\ playInfo.rangeInfo.beginIdx < playInfo.rangeInfo.endIdx
           /\ playInfo.rangeInfo.endIdx <= Len(segs)

\* a selection range strictly inside the list was carried over to the clip
\* that plays now
C23_Witness ==
    /\ playInfo.rangeInfo.type = "selected"
    /\ playInfo.rangeInfo.beginIdx > 0
    /\ playInfo.rangeInfo.endIdx < Len(segs)
    /\ playInfo.abSrcNode.state = "playing"
    /\ ctlStatus = "current"

\* C30: whenever a clip is playing, the persisted lastPlayIndex and the
\* UI's current index are the index of the segment that clip was made from
C30_PersistedIsPlaying ==
    playInfo.abSrcNode.state = "playing"
        => /\ lsIndex = playInfo.index
           /\ segIndex = playInfo.index

\* where the chain of clips is: the index and the range of playInfo's clip
\* or, between two clips, of the suspended call
NoChain == [index |-> -1, range |-> NoRange]

ChainAt ==
    IF playInfo # NoPlayInfo
    THEN [index |-> playInfo.index, range |-> playInfo.rangeInfo]
    ELSE IF call # EmptyBag
    THEN LET k == CHOOSE k \in BagToSet(call) : TRUE
         IN  [ index |-> k.index,
               range |-> ResolveRange(k.index, k.initRangeInfo, k.prevRangeInfo) ]
    ELSE NoChain

\* the index after i in the ascending cyclic order of range
Successor(i, range) == IF i + 1 < range.endIdx THEN i + 1 ELSE range.beginIdx

\* clip i of the range is sounding
PlayingClip(i) == playInfo.abSrcNode.state = "playing" /\ playInfo.index = i

\* C29: once a range plays and the user does nothing more, there is one
\* clip or one suspended call at a time, the chain keeps its range and
\* goes from an index to its successor in ascending cyclic order, and
\* every index of the range is played again and again
C29_RangeLoopForever ==
    /\ [](ChainAt # NoChain
            => /\ BagCardinality(call) + BagCardinality(detached)
                     + (IF Sounding(playInfo.abSrcNode) THEN 1 ELSE 0) = 1
               /\ ChainAt.range.beginIdx <= ChainAt.index
               /\ ChainAt.index < ChainAt.range.endIdx)
    /\ [][ChainAt # NoChain
            => /\ ChainAt'.range = ChainAt.range
               /\ \/ ChainAt'.index = ChainAt.index
                  \/ /\ PlayingClip(ChainAt.index)
                     /\ ChainAt'.index = Successor(ChainAt.index, ChainAt.range)]_vars
    /\ \A i \in Indices :
          [](( /\ ChainAt # NoChain
               /\ ChainAt.range.beginIdx <= i
               /\ i < ChainAt.range.endIdx ) => []<>PlayingClip(i))

\* the chain has come round: the first index of a range of several is
\* about to play again, the range carried over from the last clip
C29_Witness ==
    \E k \in BagToSet(call) :
        /\ k.prevRangeInfo # NoRange
        /\ k.index = k.prevRangeInfo.beginIdx
        /\ k.prevRangeInfo.endIdx > k.prevRangeInfo.beginIdx + 1
        /\ playInfo = NoPlayInfo

\* C31: when createSegmentBuffer throws in a call, the call's catch leaves
\* the current index and the saved index as they were before the call
C31_FailureRestores ==
    [][\A k \in BagToSet(call) :
          CallReturn(k, FALSE) => /\ segIndex' = k.was.segIndex
                                  /\ lsIndex' = k.was.lsIndex]_vars

\* the segments before index i (1-based) that have the sceneId of segment i
SameSceneBefore(i) == {j \in 1..(i - 1) : segments[j].sceneId = segments[i].sceneId}

\* the source text of cue i (1-based) begins with the marker
BeginsWithMarker(i) == Len(srt[i].text) > 0 /\ Head(srt[i].text) = SceneMarker

\* C33: the first segment and every segment whose source text begins with
\* the marker have a sceneId no earlier segment has, every other segment
\* has the sceneId of the one before it, the segments of one sceneId are
\* contiguous, and the stored text is the source text without the marker
\* it began with
C33_ScenesAtMarkers ==
    segments # <<>>
        => /\ Len(segments) = Len(srt)
           /\ \A i \in 1..Len(segments) :
                 /\ IF i = 1 \/ BeginsWithMarker(i)
                    THEN SameSceneBefore(i) = {}
                    ELSE segments[i].sceneId = segments[i - 1].sceneId
                 /\ IF BeginsWithMarker(i)
                    THEN <<SceneMarker>> \o segments[i].text = srt[i].text
                    ELSE segments[i].text = srt[i].text
                 /\ \A j \in SameSceneBefore(i) : \A k \in j..i :
                        segments[k].sceneId = segments[i].sceneId

\* three segments: a scene begun by a marker at the second, the third with
\* the marker inside its text and in the second's scene
C33_Witness ==
    /\ Len(segments) = 3
    /\ Head(srt[2].text) = SceneMarker
    /\ srt[3].text = <<"words", SceneMarker, "more">>
    /\ segments[1].sceneId # segments[2].sceneId
    /\ segments[2].sceneId = segments[3].sceneId

\* the shift of a boundary in half milliseconds: how much earlier the start
\* is, how much later the end is, than the parsed time in milliseconds
StartShift(i) == 2 * RoundMsec(srt[i].startSeconds) - segments[i].startTime

EndShift(i) == segments[i].endTime - 2 * RoundMsec(srt[i].endSeconds)

\* the gap in milliseconds between cue i and the cue after it
GapAfter(i) == RoundMsec(srt[i + 1].startSeconds) - RoundMsec(srt[i].endSeconds)

\* C34: every start and every end is shifted by min(400 ms, half the gap to
\* the neighbour), which is at most 400 ms in either direction; the first
\* start and the last end are not shifted
C34_ShiftAtMostMaxGap ==
    segments # <<>>
        => \A i \in 1..Len(segments) :
              /\ StartShift(i) = IF i = 1 THEN 0
                                 ELSE Min(2 * MAX_GAP_MSEC, GapAfter(i - 1))
              /\ EndShift(i) = IF i = Len(segments) THEN 0
                               ELSE Min(2 * MAX_GAP_MSEC, GapAfter(i))
              /\ StartShift(i) <= 2 * MAX_GAP_MSEC
              /\ StartShift(i) >= -(2 * MAX_GAP_MSEC)
              /\ EndShift(i) <= 2 * MAX_GAP_MSEC
              /\ EndShift(i) >= -(2 * MAX_GAP_MSEC)

\* C36: a call that was suspended when the playback was stopped, by the
\* Stop button or by the media key, starts no clip when its buffer arrives
C36_StoppedStaysIdle ==
    [][\A k \in BagToSet(call) :
          (k.stopped /\ CallReturn(k, TRUE)) => ~Sounding(playInfo'.abSrcNode)]_vars

\* stopPlayback has run on the node while its start waited for the cue
\* tone: the listener it was made with is removed and it is not started
StoppedInCue(nd) == nd.state = "cue" /\ ~nd.loop /\ ~nd.listener

\* C37: a clip whose start was waiting for the end of the cue tone when
\* stopPlayback ran on it, from a stop or from a new play request, never
\* starts
C37_StoppedCueNeverStarts ==
    [][/\ StoppedInCue(playInfo.abSrcNode)
             => playInfo'.abSrcNode # [playInfo.abSrcNode EXCEPT !.state = "playing"]
       /\ \A nd \in BagToSet(detached) :
             StoppedInCue(nd)
                 => ~BagIn([nd EXCEPT !.state = "playing"], detached')]_vars

\* C39: with segments loaded, the current index is the index of one of them
C39_CurrentIndexValid ==
    Len(segs) > 0 => (0 <= segIndex /\ segIndex < Len(segs))

\* ------------------------------------------------------------------------
\* Properties of the splitter (SpecSplit)
\* ------------------------------------------------------------------------
\* the chunk files written so far
Written == {k \in ChunkIdx : blobs[k] # NoBlob}

\* ceil(L / (60 sr)) for a recording of L samples
CeilChunks == CHOOSE n \in 0..recLen :
                  /\ n * AUDIO_BUFFER_SEGMENT_SEC * recRate >= recLen
                  /\ (n - 1) * AUDIO_BUFFER_SEGMENT_SEC * recRate < recLen

\* C21: the chunk files are written in ascending order from 0, the file
\* that initSample, createSegmentBuffer and the prefetch read for index k
\* holding the source samples [k*60*sr, min((k+1)*60*sr, L)); when the split
\* is done there are ceil(L / (60 sr)) of them and every source sample is
\* in exactly one
C21_SplitPartitions ==
    /\ Written = 0..(splitter.i - 1)
    /\ firstSegmentName = getAudioFileName(0)
    /\ \A k \in Written :
           /\ blobs[k].name = getAudioFileName(k)
           /\ blobs[k].startSample = k * AUDIO_BUFFER_SEGMENT_SEC * recRate
           /\ blobs[k].endSample =
                  Min((k + 1) * AUDIO_BUFFER_SEGMENT_SEC * recRate, recLen)
    /\ splitter.pc = "done"
           => /\ Cardinality(Written) = CeilChunks
              /\ \A x \in 0..(recLen - 1) :
                     Cardinality({k \in Written : /\ blobs[k].startSample <= x
                                                  /\ x < blobs[k].endSample}) = 1

\* a recording of whole chunks and a truncated last one has been split
C21_Witness ==
    /\ splitter.pc = "done"
    /\ Cardinality(Written) = FullChunks + 1
    /\ blobs[FullChunks].endSample - blobs[FullChunks].startSample = PartSamples

\* C22: when the encoding or the writing of chunk k fails, no chunk after
\* k is written, the chunks before k stay written, and the status is an
\* error text, never that the splitting is done
C22_SplitFailure ==
    splitter.pc = "failed"
        => /\ \A k \in ChunkIdx : k >= splitter.i => blobs[k] = NoBlob
           /\ \A k \in 0..(splitter.i - 1) : files[k] = "written" /\ blobs[k] # NoBlob
           /\ splitter.status = ErrorProcessing
           /\ splitter.status # SplittingDone

\* the write of the second chunk has failed after the first was written
C22_Witness ==
    /\ splitter.pc = "failed"
    /\ splitter.i = 1
    /\ files[0] = "written"
    /\ files[1] = "empty"

\* the chunk files in the project's folder
Stored == {k \in ChunkIdx : files[k] # "absent"}

\* C40: when a split pass is done, the chunk files in the project's folder
\* are those of indices 0..ceil(L / (60 sr)) - 1 of the recording just
\* split, and no other
C40_NoStaleChunks ==
    splitter.pc = "done" => Stored = 0..(CeilChunks - 1)

====
